---- MODULE Spec2Model ----
(***************************************************************************)
(* Model of the mobasher orchestration core.                               *)
(*                                                                         *)
(*   AsrSpec  - ASR scheduler passes (enqueue_missing), the Redis dedupe   *)
(*              keys, the broker queue and the transcribe_segment worker.  *)
(*   RecSpec  - DualHLSRecorder: start_recording, stop_recording and the   *)
(*              transcoder children it supervises.                         *)
(*   ArchSpec - ArchiveRecorder: run, the process monitor and its restart  *)
(*              budget.                                                    *)
(*   DetSpec  - the detection pass of DualHLSRecorder over the files the   *)
(*              transcoders write.                                         *)
(*   SegSpec  - the detection pass together with upsert_segment calls.     *)
(*   UpsSpec  - upsert_segment calls for one key, one after the other.     *)
(*   ConcSpec - upsert_segment and upsert_transcript by concurrent         *)
(*              writers.                                                   *)
(*   ListSpec - list_recent_transcripts over a growing channel.            *)
(*   PageSpec - the paginated listings of the API.                         *)
(*   RetSpec  - run_cleanup of the retention jobs.                         *)
(*   PruneSpec - the retention command over the four pruneable tables.     *)
(*   CliSpec  - the destructive commands of the command line.              *)
(*   BackSpec - the sleep of the ASR scheduler between its cycles.         *)
(*   NlpSpec  - the NLP scheduler and the entity and alert tasks.          *)
(*   OcrSpec  - ocr_segment over the frames of one video.                  *)
(*   TaskSpec - transcribe_segment with its outcome counter, and the       *)
(*              truncation of the tables.                                  *)
(*   CacheSpec - the model cache of an ASR worker process.                 *)
(*   DbSpec   - the first uses of the database engine of a process.        *)
(*   LagSpec  - the ASR scheduler under a backlog of segments.             *)
(*   WalkSpec - a client paging through GET /transcripts.                  *)
(*   RunSpec  - one run of DualHLSRecorder over the segment store, from    *)
(*              start_recording to the final pass after stop_recording.    *)
(*                                                                         *)
(* Every specification starts from the same initial predicate and leaves   *)
(* the variables of the other subsystems unchanged.                        *)
(***************************************************************************)
EXTENDS Integers, Sequences, FiniteSets, TLC

VARIABLES
    \* ---- ASR pipeline ----
    now,          \* wall clock, in ticks of TickSeconds
    segRow,       \* segments table: [Segs -> [audio_path, status, asr_status]]
    transcript,   \* transcripts table: [Segs -> model_name or NoRow]
    redisKey,     \* dedupe keys: [Segs -> expiry tick, 0 when absent]
    queue,        \* broker: set of messages [seg, n, retries]
    spc,          \* scheduler process position: [Scheds -> pc]
    todo,         \* scheduler process: the rest of segs of the current pass
    passMode,     \* scheduler process: how the current pass was started
    inc,          \* scheduler process: number of times it was restarted
    wpc,          \* worker position: [Workers -> pc]
    wmsg,         \* worker: the message being executed
    model_loaded, \* worker process global _MODEL is set
    pubs,         \* history: [Segs -> sequence of publishes by enqueue_missing]
    execs,        \* history: [Segs -> number of task executions started]
    done,         \* history: [Segs -> an execution returned ok]
    skipBy,       \* history: [Segs -> kinds of scheduler that found the key set]
    ranPass       \* the run_scheduler loop has made its pass of this tick

asrVars == <<now, segRow, transcript, redisKey, queue, spc, todo, passMode, inc,
             wpc, wmsg, model_loaded, pubs, execs, done, skipBy, ranPass>>

VARIABLES
    \* ---- DualHLSRecorder ----
    rnow,           \* wall clock, in ticks of RecTickSeconds
    audio_enabled,  \* configuration: the audio leg is recorded
    video_enabled,  \* configuration: the video leg is recorded
    running,        \* self.running
    recording_id,   \* self.recording_id, NoId when None
    run_started_at, \* self.run_started_at, NoTime when None
    proc,           \* [Legs -> the recorder holds a process handle for the leg]
    child,          \* operating system: [Legs -> "none", "alive", "exited"]
    files,          \* segment files on disk: [Legs -> [full, partial]]
    recordings,     \* recordings table: [1..MaxRuns -> [status, ended_at]]
    rpc,            \* position of the stop_recording call in progress
    stopLeg,        \* index in LegOrder of the leg being stopped
    runs,           \* number of start_recording calls made
    stopCalls,      \* history: number of stop_recording calls made
    stopAt,         \* history: when the stop of a running recorder was called
    termAt,         \* history: [Legs -> when SIGTERM was sent]
    killAt,         \* history: [Legs -> when SIGKILL was sent]
    stopDone,       \* history: stop_recording has returned for the last run
    lastStop        \* history: how the latest stop_recording call went

recVars == <<rnow, audio_enabled, video_enabled, running, recording_id,
             run_started_at, proc, child, files, recordings, rpc, stopLeg, runs,
             stopCalls, stopAt, termAt, killAt, stopDone, lastStop>>

VARIABLES
    \* ---- ArchiveRecorder ----
    anow,           \* wall clock, in ticks of ArchTickSeconds
    runPc,          \* position of run: "init", "waiting", "returned"
    monitor,        \* monitor task: "none", "polling", "stopped", "cancelled"
    firstCode,      \* returncode of the child run waits for, NoCode when None
    curCode,        \* returncode of self.process, NoCode when None
    restart_count,  \* self.restart_count
    last_restart,   \* self.last_restart
    restartTimes,   \* history: the times of the restarts, oldest first
    archRows        \* recordings table: statuses of the rows this recorder wrote

archVars == <<anow, runPc, monitor, firstCode, curCode, restart_count,
              last_restart, restartTimes, archRows>>

VARIABLES
    \* ---- segment store ----
    dfiles,         \* segment files in the audio and video directories
    segTab,         \* segments table: the set of rows
    passes,         \* history: number of get_new_segments passes so far
    passedFiles,    \* history: the files the latest pass saw
    rerun,          \* history: the latest pass saw the files of the pass before
    persistedFiles, \* history: <<media type, seconds>> of the files persisted
    sup             \* history: what the upsert_segment calls supplied, by start

storeVars == <<dfiles, segTab, passes, passedFiles, rerun, persistedFiles, sup>>

VARIABLES
    \* ---- repositories ----
    trTab,          \* transcripts table: the set of rows
    upc,            \* position of each writer's upsert call
    ucall,          \* the arguments of each writer's call
    usnap           \* the row each writer's db.get returned, as a set

repoVars == <<trTab, upc, ucall, usnap>>

VARIABLES
    \* ---- API listings ----
    rowCount,       \* number of rows in the table a listing reads
    resp            \* the latest response of a listing

pageVars == <<rowCount, resp>>

VARIABLES
    \* ---- retention job ----
    trDays,         \* transcripts: the day of segment_started_at of each row
    embDays,        \* segment_embeddings: likewise
    shots,          \* screenshot files: suffix and day of st_mtime
    report,         \* what the latest run_cleanup was given and returned
    jobs            \* history: number of run_cleanup calls so far

retVars == <<trDays, embDays, shots, report, jobs>>

VARIABLES
    \* ---- retention command ----
    entDays,        \* entities: the day of started_at of each row
    alertDays,      \* alerts: the day of created_at of each row
    retExit,        \* exit code of the latest retention command, NoCode if none
    retPrinted      \* entities_old and alerts_old the latest command printed

pruneVars == <<entDays, alertDays, retExit, retPrinted>>

VARIABLES
    \* ---- command line ----
    procs,          \* the kinds of mobasher processes that are running
    tables,         \* the groups of tables that hold rows
    dataDirs,       \* the dated folders under the data roots
    cliExit,        \* exit code of the latest command, NoCode if none
    cliCalls,       \* history: number of commands run so far
    cliLast,        \* history: the latest command and its flags
    cliLog,         \* history: the steps the latest command performed
    aliveAtTruncate \* history: the processes running when tables were truncated

cliVars == <<procs, tables, dataDirs, cliExit, cliCalls, cliLast, cliLog,
             aliveAtTruncate>>

VARIABLES
    \* ---- run_scheduler, the sleep between cycles ----
    sched_args,       \* interval_seconds and max_interval_seconds of the call
    current_interval, \* current_interval
    fails,            \* history: failing cycles since the last successful one
    sleep_for         \* sleep_for of the latest cycle, 0 before the first

backVars == <<sched_args, current_interval, fails, sleep_for>>

VARIABLES
    \* ---- NLP scheduler and workers ----
    nlp_segments,    \* segments: the ids of the rows
    nlp_transcripts, \* transcripts: the rows, one per segment id at most
    dictionaries,    \* whether the dictionary folders hold files
    nlp_queue,       \* the broker queue of the NLP tasks
    entities,        \* entities: the rows in insertion order
    alerts,          \* alerts: the rows in insertion order
    nlp_passes,      \* history: scheduler passes so far
    nlp_execs,       \* history: task executions so far
    nlp_last         \* history: the latest task execution, NoExec if none

nlpVars == <<nlp_segments, nlp_transcripts, dictionaries, nlp_queue, entities,
             alerts, nlp_passes, nlp_execs, nlp_last>>

VARIABLES
    \* ---- OCR worker ----
    ocr_frames,      \* what the OCR reads in the sampled frames of the video
    visual_events,   \* visual_events: the rows in insertion order
    vision_status,   \* vision_status of the segment of the video
    ocr_runs         \* history: executions of ocr_segment so far

ocrVars == <<ocr_frames, visual_events, vision_status, ocr_runs>>

VARIABLES
    \* ---- ASR_TASK_OUTCOMES ----
    outcomes         \* history: [Workers -> the outcomes the current or latest
                     \* execution of the worker has counted]

taskVars == <<outcomes>>

VARIABLES
    \* ---- the model cache of a worker process ----
    pool,            \* the pool the worker process was started with, NoPool before
    cached_model,    \* _MODEL: 0 for None, else the number of the model object
    tpc,             \* [Threads -> position of the task invocation in _get_model]
    got,             \* [Threads -> the model the latest _get_model returned, 0 if none]
    loads,           \* history: WhisperModel objects constructed so far
    calls            \* history: [Threads -> task invocations started]

cacheVars == <<pool, cached_model, tpc, got, loads, calls>>

VARIABLES
    \* ---- the database engine of a process ----
    engine,          \* _engine: 0 for None, else the number of the engine
    SessionLocal,    \* SessionLocal: 0 for None, else the engine it is bound to
    dpc,             \* [Threads -> position of the thread in init_engine / get_session]
    ret,             \* [Threads -> where init_engine returns to]
    engines          \* history: engines created so far

dbVars == <<engine, SessionLocal, dpc, ret, engines>>

VARIABLES
    \* ---- one run over the segment store ----
    run_micro        \* self.run_started_at has a fraction of a second

runVars == <<run_micro>>

VARIABLES
    \* ---- the ASR scheduler under a backlog ----
    lnow,            \* wall clock, in ticks of LagTickSeconds
    waiting,         \* [LagStarts -> eligible segments with no dedupe key]
    inflight,        \* [LagStarts -> segments published, transcript not yet written]
    lpassed,         \* the run_scheduler loop has made a pass in this tick
    arrived          \* history: [LagStarts -> segments persisted with that start]

lagVars == <<lnow, waiting, inflight, lpassed, arrived>>

VARIABLES
    \* ---- a client walking GET /transcripts ----
    walk_limit,      \* the limit of the walk, 0 before its first request
    walk_next,       \* next_offset of the latest response, NoOffset when absent
    walk_items       \* the starts of the pairs returned so far, in order

walkVars == <<walk_limit, walk_next, walk_items>>

tailVars == <<runVars, lagVars, walkVars>>

lastVars == <<cacheVars, dbVars, tailVars>>

lateVars == <<nlpVars, ocrVars, taskVars, lastVars>>

moreVars == <<pruneVars, cliVars, backVars, lateVars>>

vars == <<asrVars, recVars, archVars, storeVars, repoVars, pageVars, retVars, moreVars>>

(***************************************************************************)
(* Bounds of the model.                                                    *)
(***************************************************************************)
NumSegs == 1
NumScheds == 2
NumWorkers == 1
MaxTime == 4
MaxSchedRestarts == 1
NumStarts == 1
MaxPasses == 2
NumOlder == 2
MaxLagTime == 3
MaxBatches == 2
MaxWalkRows == 4
MaxWalkLimit == 3
NumRunStarts == 2
MaxUpserts == 3
MaxSegUpserts == 1
NumWriters == 2
MaxChanSegs == 101
MaxPageRows == 3
MaxLimit == 2
MaxOffset == 2
MaxDay == 2
MaxJobs == 2
MaxCliCalls == 2
MaxFails == 5
NumNlpSegs == 1
MaxNlpPasses == 2
nlp_max_retries == 2
MaxOcrFrames == 3
MaxOcrRuns == 1
NumThreads == 2
MaxCalls == 2
MaxEngines == 2
video_duration_ms == 2400
ocr_fps == 3
ocr_iou_threshold == 30
ocr_text_sim_threshold == 60
ocr_merge_window_ms == 2000

Segs == 1..NumSegs
Scheds == 1..NumScheds
Workers == 1..NumWorkers

(***************************************************************************)
(* Program constants.  The clock counts ticks of twenty minutes.            *)
(***************************************************************************)
TickSeconds == 20 * 60
dedupe_ttl_seconds == 3600
lookback_minutes == 10
max_retries == 3

TTL == dedupe_ttl_seconds \div TickSeconds
Lookback == (lookback_minutes * 60) \div TickSeconds

NoRow == "none"
NoPath == "null"
model_name == "large-v3"
NoMsg == [seg |-> 0, n |-> 0, retries |-> 0]

\* Every modelled segment starts in tick 0; a larger index is a later start.
SegStart(s) == 0

(***************************************************************************)
(* Redis: SET key "1" NX EX ttl, and the key's expiry.                     *)
(***************************************************************************)
Alive(s) == redisKey[s] > now

SetWithoutNx(s) == TRUE

SetNxOk(s) == ~Alive(s)

(***************************************************************************)
(* list_segments_missing_transcripts: audio path not null, overall status  *)
(* completed, no transcript row, started_at >= since, newest first.        *)
(***************************************************************************)
MissingBeforeSince(mode) ==
    {s \in Segs : /\ segRow[s].audio_path # NoPath
                  /\ segRow[s].status = "completed"
                  /\ transcript[s] = NoRow
                  /\ (mode = "manual" \/ SegStart(s) < now - Lookback)}

Missing(mode) ==
    {s \in Segs : /\ segRow[s].audio_path # NoPath
                  /\ segRow[s].status = "completed"
                  /\ transcript[s] = NoRow
                  /\ (mode = "manual" \/ SegStart(s) >= now - Lookback)}

RECURSIVE NewestFirst(_)
NewestFirst(S) ==
    IF S = {} THEN <<>>
    ELSE LET m == CHOOSE x \in S : \A y \in S : y <= x
         IN <<m>> \o NewestFirst(S \ {m})

list_segments_missing_transcripts(mode) == NewestFirst(Missing(mode))

(***************************************************************************)
(* upsert_segment, the insert: the recorder persists a segment in the tick *)
(* the segment starts, before the scheduler passes of that tick.           *)
(***************************************************************************)
upsert_segment(s, audio_path, status) ==
    /\ segRow[s].status = NoRow
    /\ now = SegStart(s)
    /\ \A p \in Scheds : ~ranPass[p]
    /\ segRow' = [segRow EXCEPT ![s] = [audio_path |-> audio_path,
                                        status |-> status,
                                        asr_status |-> "pending"]]
    /\ UNCHANGED <<now, transcript, redisKey, queue, spc, todo, passMode, inc,
                   wpc, wmsg, model_loaded, pubs, execs, done, skipBy>>

(***************************************************************************)
(* enqueue_missing, one action per Redis / database / broker call.         *)
(***************************************************************************)
\* s = db.get(...); if s is not None: s.asr_status = value
SetAsrStatus(s, value) == IF segRow[s].status = NoRow THEN segRow ELSE [segRow EXCEPT ![s].asr_status = value]

\* A "sched" pass is one cycle of run_scheduler (since = now - lookback); a
\* "manual" pass is the CLI's asr enqueue command with no since.
PassBegin(p, mode) ==
    /\ spc[p] = "idle"
    /\ LET segs == list_segments_missing_transcripts(mode)
       IN /\ todo' = [todo EXCEPT ![p] = segs]
          /\ spc' = [spc EXCEPT ![p] = IF segs = <<>> THEN "idle" ELSE "set"]
    /\ passMode' = [passMode EXCEPT ![p] = IF Missing(mode) = {} THEN "sched" ELSE mode]
    /\ UNCHANGED <<now, segRow, transcript, redisKey, queue, inc, wpc, wmsg,
                   model_loaded, pubs, execs, done, skipBy>>

Advance(p) ==
    /\ todo' = [todo EXCEPT ![p] = Tail(todo[p])]
    /\ spc' = [spc EXCEPT ![p] = IF Len(todo[p]) = 1 THEN "idle" ELSE "set"]
    /\ passMode' = [passMode EXCEPT ![p] = IF Len(todo[p]) = 1 THEN "sched" ELSE @]

SetKey(p) ==
    /\ spc[p] = "set"
    /\ LET s == Head(todo[p])
       IN IF SetNxOk(s)
          THEN /\ redisKey' = [redisKey EXCEPT ![s] = now + TTL]
               /\ spc' = [spc EXCEPT ![p] = "mark"]
               /\ UNCHANGED <<todo, passMode, skipBy>>
          ELSE /\ Advance(p)
               /\ skipBy' = [skipBy EXCEPT ![s] =
                                @ \cup {IF inc[p] > 0 THEN "restarted" ELSE "fresh"}]
               /\ UNCHANGED redisKey
    /\ UNCHANGED <<now, segRow, transcript, queue, inc, wpc, wmsg,
                   model_loaded, pubs, execs, done>>

MarkQueued(p) ==
    /\ spc[p] = "mark"
    /\ LET s == Head(todo[p])
       IN segRow' = SetAsrStatus(s, "queued")
    /\ spc' = [spc EXCEPT ![p] = "publish"]
    /\ UNCHANGED <<now, transcript, redisKey, queue, todo, passMode, inc, wpc,
                   wmsg, model_loaded, pubs, execs, done, skipBy>>

Publish(p) ==
    /\ spc[p] = "publish"
    /\ LET s == Head(todo[p])
           n == Len(pubs[s]) + 1
       IN /\ queue' = queue \cup {[seg |-> s, n |-> n, retries |-> 0]}
          /\ pubs' = [pubs EXCEPT ![s] =
                        Append(@, [at |-> now, inc |-> inc[p]])]
    /\ Advance(p)
    /\ UNCHANGED <<now, segRow, transcript, redisKey, inc, wpc, wmsg,
                   model_loaded, execs, done, skipBy>>

SchedRestartLosingKeys(p) ==
    /\ inc[p] < MaxSchedRestarts
    /\ inc' = [inc EXCEPT ![p] = @ + 1]
    /\ spc' = [spc EXCEPT ![p] = "idle"]
    /\ todo' = [todo EXCEPT ![p] = <<>>]
    /\ passMode' = [passMode EXCEPT ![p] = "sched"]
    /\ redisKey' = [s \in Segs |-> 0]
    /\ UNCHANGED <<now, segRow, transcript, queue, wpc, wmsg,
                   model_loaded, pubs, execs, done, skipBy>>

\* The scheduler process is stopped and started again: its loop state is
\* lost, Redis, the database and the broker keep theirs.
SchedRestart(p) ==
    /\ inc[p] < MaxSchedRestarts
    /\ inc' = [inc EXCEPT ![p] = @ + 1]
    /\ spc' = [spc EXCEPT ![p] = "idle"]
    /\ todo' = [todo EXCEPT ![p] = <<>>]
    /\ passMode' = [passMode EXCEPT ![p] = "sched"]
    /\ UNCHANGED <<now, segRow, transcript, redisKey, queue, wpc, wmsg,
                   model_loaded, pubs, execs, done, skipBy>>

(***************************************************************************)
(* transcribe_segment, one action per database / broker call.              *)
(***************************************************************************)
WorkerUnchanged == UNCHANGED <<now, redisKey, spc, todo, passMode, inc, pubs,
                               skipBy>>

\* The broker delivers m and the task starts: db.get(Segment); without an
\* audio path the task asks for a retry, otherwise it marks the segment
\* processing.
WStart(w, m) ==
    /\ wpc[w] = "idle"
    /\ m \in queue
    /\ queue' = queue \ {m}
    /\ wmsg' = [wmsg EXCEPT ![w] = m]
    /\ execs' = [execs EXCEPT ![m.seg] = @ + 1]
    /\ IF segRow[m.seg].audio_path = NoPath
       THEN /\ wpc' = [wpc EXCEPT ![w] = "retry"]
            /\ UNCHANGED segRow
       ELSE /\ segRow' = [segRow EXCEPT ![m.seg].asr_status = "processing"]
            /\ wpc' = [wpc EXCEPT ![w] = "model"]
    /\ UNCHANGED <<transcript, model_loaded, done>>
    /\ WorkerUnchanged

\* _get_model: the cached model, or a load that succeeds or raises.
WModel(w, ok) ==
    /\ wpc[w] = "model"
    /\ (model_loaded => ok)
    /\ model_loaded' = (model_loaded \/ ok)
    /\ wpc' = [wpc EXCEPT ![w] = IF ok THEN "transcribe" ELSE "retry"]
    /\ UNCHANGED <<segRow, transcript, queue, wmsg, execs, done>>
    /\ WorkerUnchanged

\* model.transcribe and upsert_transcript, or an analyser error.
WTranscribe(w, ok) ==
    /\ wpc[w] = "transcribe"
    /\ IF ok
       THEN /\ transcript' = [transcript EXCEPT ![wmsg[w].seg] = model_name]
            /\ wpc' = [wpc EXCEPT ![w] = "complete"]
       ELSE /\ wpc' = [wpc EXCEPT ![w] = "error"]
            /\ UNCHANGED transcript
    /\ UNCHANGED <<segRow, queue, wmsg, model_loaded, execs, done>>
    /\ WorkerUnchanged

RetriesNeverEnd(m) == TRUE

\* max_retries=3 of the task: self.retry sends the message again while the
\* message has been retried fewer times
RetriesLeft(m) == m.retries < max_retries

\* self.retry(exc=e) republishes the message while retries remain, to be
\* delivered default_retry_delay (10 s) later, and raises inside the task's
\* try block; the except Exception handler marks the segment failed and
\* re-raises.  The handler is done long before the retry is delivered.
WRetry(w) ==
    /\ wpc[w] = "retry"
    /\ queue' = IF RetriesLeft(wmsg[w])
                THEN queue \cup {[wmsg[w] EXCEPT !.retries = @ + 1]}
                ELSE queue
    /\ segRow' = SetAsrStatus(wmsg[w].seg, "failed")
    /\ wpc' = [wpc EXCEPT ![w] = "idle"]
    /\ wmsg' = [wmsg EXCEPT ![w] = NoMsg]
    /\ UNCHANGED <<transcript, model_loaded, execs, done>>
    /\ WorkerUnchanged

\* An analyser error: except Exception marks the segment failed and re-raises.
WError(w) ==
    /\ wpc[w] = "error"
    /\ segRow' = SetAsrStatus(wmsg[w].seg, "failed")
    /\ wpc' = [wpc EXCEPT ![w] = "idle"]
    /\ wmsg' = [wmsg EXCEPT ![w] = NoMsg]
    /\ UNCHANGED <<transcript, queue, model_loaded, execs, done>>
    /\ WorkerUnchanged

\* mark the segment completed and return ok.
WComplete(w) ==
    /\ wpc[w] = "complete"
    /\ segRow' = SetAsrStatus(wmsg[w].seg, "completed")
    /\ done' = [done EXCEPT ![wmsg[w].seg] = TRUE]
    /\ wpc' = [wpc EXCEPT ![w] = "idle"]
    /\ wmsg' = [wmsg EXCEPT ![w] = NoMsg]
    /\ UNCHANGED <<transcript, queue, model_loaded, execs>>
    /\ WorkerUnchanged

\* A pass makes its Redis, database and broker calls within one tick.  Redis
\* drops a key when its TTL has run out.
Tick ==
    /\ now < MaxTime
    /\ \A p \in Scheds : spc[p] = "idle"
    /\ now' = now + 1
    /\ redisKey' = [s \in Segs |-> IF redisKey[s] > now + 1 THEN redisKey[s] ELSE 0]
    /\ UNCHANGED <<segRow, transcript, queue, spc, todo, passMode, inc,
                   wpc, wmsg, model_loaded, pubs, execs, done, skipBy>>

InitAsr ==
    /\ now = 0
    /\ segRow = [s \in Segs |-> [audio_path |-> NoPath, status |-> NoRow,
                                 asr_status |-> "pending"]]
    /\ transcript = [s \in Segs |-> NoRow]
    /\ redisKey = [s \in Segs |-> 0]
    /\ queue = {}
    /\ spc = [p \in Scheds |-> "idle"]
    /\ todo = [p \in Scheds |-> <<>>]
    /\ passMode = [p \in Scheds |-> "sched"]
    /\ inc = [p \in Scheds |-> 0]
    /\ wpc = [w \in Workers |-> "idle"]
    /\ wmsg = [w \in Workers |-> NoMsg]
    /\ model_loaded = FALSE
    /\ pubs = [s \in Segs |-> <<>>]
    /\ execs = [s \in Segs |-> 0]
    /\ done = [s \in Segs |-> FALSE]
    /\ skipBy = [s \in Segs |-> {}]
    /\ ranPass = [p \in Scheds |-> FALSE]


(***************************************************************************)
(* DualHLSRecorder.  The clock counts ticks of half the stop timeout.      *)
(***************************************************************************)
MaxRecTime == 4
MaxRuns == 1
MaxStopCalls == 2
MaxFull == 2

stop_timeout_seconds == 10
RecTickSeconds == stop_timeout_seconds \div 2
StopTimeout == stop_timeout_seconds \div RecTickSeconds

NoId == 0
NoTime == 0 - 1

LegOrder == <<"audio", "video", "archive">>
Legs == {LegOrder[i] : i \in DOMAIN LegOrder}
LegPos(l) == CHOOSE i \in DOMAIN LegOrder : LegOrder[i] = l

\* __init__: the archive leg is switched off in this recorder.
archive_enabled == FALSE

LegEnabled(l) ==
    CASE l = "audio" -> audio_enabled
      [] l = "video" -> video_enabled
      [] OTHER -> archive_enabled

\* The position of the spawn that raises; past the last leg when none does.
FailPos(outcome) ==
    CASE outcome = "audio_fails" -> LegPos("audio")
      [] outcome = "video_fails" -> LegPos("video")
      [] OTHER -> Len(LegOrder) + 1

Spawned(outcome) == {l \in Legs : LegEnabled(l) /\ LegPos(l) < FailPos(outcome)}

\* _persist_recording_start: merge a row with status running.
persist_recording_start(rid) ==
    [recordings EXCEPT ![rid] = [status |-> "running", ended_at |-> NoTime]]

\* _persist_recording_end, called when self.recording_id is rid.
persist_recording_end(rid) ==
    IF rid = NoId \/ run_started_at = NoTime
    THEN recordings
    ELSE IF recordings[rid].status = "none"
         THEN recordings
         ELSE [recordings EXCEPT ![rid] = [status |-> "completed", ended_at |-> rnow]]

\* _cleanup_partials: delete the short audio and video segment files.
cleanup_partials(f) ==
    [l \in Legs |-> IF l \in {"audio", "video"} /\ LegEnabled(l)
                    THEN [f[l] EXCEPT !.partial = FALSE]
                    ELSE f[l]]

\* _cleanup_extras: keep the earliest full segment file per media type.
cleanup_extras(f) ==
    [l \in Legs |-> IF l \in {"audio", "video"} /\ LegEnabled(l) /\ f[l].full > 1
                    THEN [f[l] EXCEPT !.full = 1]
                    ELSE f[l]]

\* __init__ reads audio_enabled and video_enabled from the channel's
\* configuration; both default to True.
load_config(audio, video) ==
    /\ runs = 0
    /\ stopCalls = 0
    /\ rnow = 0
    /\ <<audio, video>> # <<audio_enabled, video_enabled>>
    /\ audio_enabled' = audio
    /\ video_enabled' = video
    /\ UNCHANGED <<rnow, running, recording_id, run_started_at, proc, child,
                   files, recordings, rpc, stopLeg, runs, stopCalls, stopAt,
                   termAt, killAt, stopDone, lastStop>>

\* start_recording.  A spawn can raise; the exception leaves start_recording
\* with the legs spawned so far running and self.running still False.  The
\* model starts a recorder only when no child of an earlier start is alive.
start_recording(outcome, persisted) ==
    /\ rpc = "idle"
    /\ ~running
    /\ runs < MaxRuns
    /\ \A l \in Legs : child[l] # "alive"
    /\ outcome = "audio_fails" => audio_enabled
    /\ outcome = "video_fails" => video_enabled
    /\ runs' = runs + 1
    /\ recording_id' = runs + 1
    /\ run_started_at' = rnow
    /\ recordings' = IF persisted THEN persist_recording_start(runs + 1)
                     ELSE recordings
    /\ proc' = [l \in Legs |-> IF l \in Spawned(outcome) THEN TRUE ELSE proc[l]]
    /\ child' = [l \in Legs |-> IF l \in Spawned(outcome) THEN "alive" ELSE child[l]]
    /\ running' = (outcome = "ok")
    /\ stopAt' = NoTime
    /\ termAt' = [l \in Legs |-> NoTime]
    /\ killAt' = [l \in Legs |-> NoTime]
    /\ stopDone' = FALSE
    /\ UNCHANGED <<rnow, audio_enabled, video_enabled, files, rpc, stopLeg,
                   stopCalls, lastStop>>

StopRunsAlways == FALSE

\* stop_recording: if not self.running: return
StopSkips == ~running

\* stop_recording is called; on a recorder that is not running it returns at
\* once, otherwise it goes on to stop the legs in order.
stop_recording ==
    /\ rpc = "idle"
    /\ stopCalls < MaxStopCalls
    /\ stopCalls' = stopCalls + 1
    /\ IF StopSkips
       THEN /\ lastStop' = "skipped"
            /\ UNCHANGED <<rpc, stopLeg, stopAt>>
       ELSE /\ lastStop' = "stopped"
            /\ rpc' = "legs"
            /\ stopLeg' = 1
            /\ stopAt' = rnow
    /\ UNCHANGED <<rnow, audio_enabled, video_enabled, running, recording_id,
                   run_started_at, proc, child, files, recordings, runs,
                   termAt, killAt, stopDone>>

\* _stop_process has returned for the current leg.
StopAdvance ==
    IF stopLeg = Len(LegOrder)
    THEN rpc' = "finish" /\ stopLeg' = 0
    ELSE rpc' = "legs" /\ stopLeg' = stopLeg + 1

KillAtOnce(l) == TRUE

\* asyncio.wait_for(process.wait(), timeout=10.0) has timed out.
KillDue(l) == rnow >= termAt[l] + StopTimeout

\* _stop_process, up to the wait: no handle, or a child that is gone (the
\* signal raises and the exception is swallowed), returns at once; otherwise
\* SIGTERM goes to the child's process group.
stop_process_term ==
    /\ rpc = "legs"
    /\ LET l == LegOrder[stopLeg]
       IN IF proc[l] /\ child[l] = "alive"
          THEN /\ termAt' = [termAt EXCEPT ![l] = rnow]
               /\ rpc' = "wait"
               /\ UNCHANGED stopLeg
          ELSE /\ StopAdvance
               /\ UNCHANGED termAt
    /\ UNCHANGED <<rnow, audio_enabled, video_enabled, running, recording_id,
                   run_started_at, proc, child, files, recordings, runs,
                   stopCalls, stopAt, killAt, stopDone, lastStop>>

\* process.wait() returns: the child has exited, within the timeout or
\* after the kill.
stop_process_exited ==
    /\ rpc \in {"wait", "killed"}
    /\ child[LegOrder[stopLeg]] = "exited"
    /\ StopAdvance
    /\ UNCHANGED <<rnow, audio_enabled, video_enabled, running, recording_id,
                   run_started_at, proc, child, files, recordings, runs,
                   stopCalls, stopAt, termAt, killAt, stopDone, lastStop>>

\* The wait timed out: SIGKILL goes to the child's process group.
stop_process_kill ==
    /\ rpc = "wait"
    /\ LET l == LegOrder[stopLeg]
       IN /\ child[l] = "alive"
          /\ KillDue(l)
          /\ killAt' = [killAt EXCEPT ![l] = rnow]
    /\ rpc' = "killed"
    /\ UNCHANGED <<rnow, audio_enabled, video_enabled, running, recording_id,
                   run_started_at, proc, child, files, recordings, stopLeg, runs,
                   stopCalls, stopAt, termAt, stopDone, lastStop>>

\* stop_recording after the legs: the handles and self.recording_id are
\* cleared, then the cleanups and _persist_recording_end run.
stop_recording_finish ==
    /\ rpc = "finish"
    /\ proc' = [l \in Legs |-> FALSE]
    /\ recording_id' = NoId
    /\ running' = FALSE
    /\ files' = cleanup_extras(cleanup_partials(files))
    /\ recordings' = persist_recording_end(recording_id')
    /\ rpc' = "idle"
    /\ stopDone' = TRUE
    /\ UNCHANGED <<rnow, audio_enabled, video_enabled, run_started_at, child,
                   stopLeg, runs, stopCalls, stopAt, termAt, killAt, lastStop>>

\* A transcoder child exits: by itself, on SIGTERM, or on SIGKILL.
ChildExit(l) ==
    /\ child[l] = "alive"
    /\ child' = [child EXCEPT ![l] = "exited"]
    /\ UNCHANGED <<rnow, audio_enabled, video_enabled, running, recording_id,
                   run_started_at, proc, files, recordings, rpc, stopLeg, runs,
                   stopCalls, stopAt, termAt, killAt, stopDone, lastStop>>

\* A running child opens a new segment file or completes the open one.
ChildWrite(l) ==
    /\ child[l] = "alive"
    /\ killAt[l] = NoTime
    /\ IF files[l].partial
       THEN /\ files[l].full < MaxFull
            /\ files' = [files EXCEPT ![l] = [full |-> @.full + 1, partial |-> FALSE]]
       ELSE files' = [files EXCEPT ![l].partial = TRUE]
    /\ UNCHANGED <<rnow, audio_enabled, video_enabled, running, recording_id,
                   run_started_at, proc, child, recordings, rpc, stopLeg, runs,
                   stopCalls, stopAt, termAt, killAt, stopDone, lastStop>>

\* Time passes.  The recorder's own steps take no time: only the wait for a
\* child lasts, until the child exits or the timeout is due, and a killed
\* child exits at once.
RecTick ==
    /\ rnow < MaxRecTime
    /\ rpc \in {"idle", "wait"}
    /\ rpc = "wait" => /\ child[LegOrder[stopLeg]] = "alive"
                       /\ ~KillDue(LegOrder[stopLeg])
    /\ rnow' = rnow + 1
    /\ UNCHANGED <<audio_enabled, video_enabled, running, recording_id,
                   run_started_at, proc, child, files, recordings, rpc, stopLeg,
                   runs, stopCalls, stopAt, termAt, killAt, stopDone, lastStop>>

InitRec ==
    /\ rnow = 0
    /\ audio_enabled = TRUE
    /\ video_enabled = TRUE
    /\ running = FALSE
    /\ recording_id = NoId
    /\ run_started_at = NoTime
    /\ proc = [l \in Legs |-> FALSE]
    /\ child = [l \in Legs |-> "none"]
    /\ files = [l \in Legs |-> [full |-> 0, partial |-> FALSE]]
    /\ recordings = [r \in 1..MaxRuns |-> [status |-> "none", ended_at |-> NoTime]]
    /\ rpc = "idle"
    /\ stopLeg = 0
    /\ runs = 0
    /\ stopCalls = 0
    /\ stopAt = NoTime
    /\ termAt = [l \in Legs |-> NoTime]
    /\ killAt = [l \in Legs |-> NoTime]
    /\ stopDone = FALSE
    /\ lastStop = "none"

(***************************************************************************)
(* ArchiveRecorder: run, the monitor loop and the restart budget.  The     *)
(* clock counts ticks of thirty minutes; the monitor polls every 10 s, so  *)
(* a tick holds many polls.                                                *)
(***************************************************************************)
MaxArchTime == 3

ArchTickSeconds == 30 * 60
max_restarts_per_hour == 5
restart_window_seconds == 3600
HourTicks == restart_window_seconds \div ArchTickSeconds

NoCode == 0 - 1
ExitCodes == {0, 1}

\* run, up to the wait: _spawn_ffmpeg starts the first child, the monitor
\* task is created, and run awaits proc.wait() of that first child.
run ==
    /\ runPc = "init"
    /\ runPc' = "waiting"
    /\ monitor' = "polling"
    /\ firstCode' = NoCode
    /\ curCode' = NoCode
    /\ UNCHANGED <<anow, restart_count, last_restart, restartTimes, archRows>>

\* The child that self.process refers to exits.  Its returncode is set; the
\* waiters of proc.wait() are woken by the event loop later, once the
\* child's pipes are closed.
ProcessExit(code) ==
    /\ runPc = "waiting"
    /\ curCode = NoCode
    /\ curCode' = code
    /\ firstCode' = IF restartTimes = <<>> THEN code ELSE firstCode
    /\ UNCHANGED <<anow, runPc, monitor, restart_count, last_restart, restartTimes, archRows>>

\* _monitor_process: if (now - self.last_restart).total_seconds() > 3600
WindowExpired == anow - last_restart > HourTicks

\* One poll of monitor_loop: _monitor_process and, when the child has
\* terminated and the budget allows, _restart_process (spawned tells whether
\* _spawn_ffmpeg succeeded; a failure is logged and nothing is counted).
monitor_process(spawned) ==
    /\ monitor = "polling"
    /\ LET count == IF WindowExpired THEN 0 ELSE restart_count
           since == IF WindowExpired THEN anow ELSE last_restart
       IN /\ last_restart' = since
          /\ IF curCode # NoCode
             THEN IF count < max_restarts_per_hour
                  THEN IF spawned
                       THEN /\ curCode' = NoCode
                            /\ restart_count' = count + 1
                            /\ restartTimes' = Append(restartTimes, anow)
                            /\ UNCHANGED monitor
                       ELSE /\ restart_count' = count
                            /\ UNCHANGED <<curCode, restartTimes, monitor>>
                  ELSE /\ monitor' = "stopped"
                       /\ restart_count' = count
                       /\ UNCHANGED <<curCode, restartTimes>>
             ELSE /\ restart_count' = count
                  /\ UNCHANGED <<curCode, restartTimes, monitor>>
    /\ UNCHANGED <<anow, runPc, firstCode, archRows>>

\* proc.wait() of the first child returns; run's finally block cancels the
\* monitor task and run returns.
run_return ==
    /\ runPc = "waiting"
    /\ firstCode # NoCode
    /\ runPc' = "returned"
    /\ monitor' = IF monitor = "polling" THEN "cancelled" ELSE monitor
    /\ UNCHANGED <<anow, firstCode, curCode, restart_count, last_restart,
                   restartTimes, archRows>>

\* db_tracking_loop: _track_completed_files finds a closed archive file and
\* _create_archive_recording inserts its row, with status completed.
track_completed_files ==
    /\ runPc = "waiting"
    /\ archRows' = archRows \cup {"completed"}
    /\ UNCHANGED <<anow, runPc, monitor, firstCode, curCode, restart_count,
                   last_restart, restartTimes>>

ArchTick ==
    /\ anow < MaxArchTime
    /\ runPc = "waiting"
    /\ anow' = anow + 1
    /\ UNCHANGED <<runPc, monitor, firstCode, curCode, restart_count,
                   last_restart, restartTimes, archRows>>

InitArch ==
    /\ anow = 0
    /\ runPc = "init"
    /\ monitor = "none"
    /\ firstCode = NoCode
    /\ curCode = NoCode
    /\ restart_count = 0
    /\ last_restart = 0
    /\ restartTimes = <<>>
    /\ archRows = {}

(***************************************************************************)
(* The segment store: the files the transcoders write, the detection pass  *)
(* of DualHLSRecorder and the segments table.  File times are in recorder  *)
(* ticks; the recorder's clock is held while the store is examined, so a   *)
(* file's start is measured against the start of the run.                  *)
(***************************************************************************)
segment_seconds == 60
sample_rate == 16000
channels == 1
video_bitrate == 2500000
min_video_bytes == 500000

channel_id == "ch1"
NoSize == 0 - 1
SegTicks == segment_seconds \div RecTickSeconds

\* Start times of the files: one segment before the run started (an older
\* file in today's folder) and the segments of the run.
FileStarts == {(k - 1) * SegTicks : k \in 0..NumStarts}

\* Seconds of media a file holds: just opened, nearly whole, whole.
FileSeconds == {2, 52, segment_seconds}

MediaTypes == {"audio", "video"}

\* st_size: PCM s16le holds sample_rate * channels * 2 bytes per second, the
\* video stream is encoded at the configured bitrate.
FileSize(f) ==
    IF f.media = "audio" THEN f.secs * sample_rate * channels * 2
    ELSE f.secs * (video_bitrate \div 8)

\* <directory>/<channel_id>-<start>.<suffix>
FilePath(f) ==
    f.media \o "/" \o channel_id \o "-" \o ToString(f.start) \o
    (IF f.media = "audio" THEN ".wav" ELSE ".mp4")

\* _collect_segments: the size test a file must pass before it is persisted.
PassesGate(f) ==
    IF f.media = "audio"
    THEN ~(FileSize(f) * 100 < sample_rate * channels * 2 * segment_seconds * 85)
    ELSE ~(FileSize(f) < min_video_bytes)

\* An id drawn afresh in every pass.
UuidPerPass(started_at) == <<channel_id, started_at, passes>>

\* uuid5(NAMESPACE_DNS, channel_id ":" started_at)
segment_uuid(started_at) == <<channel_id, started_at>>

Existing(tab, id, started_at) ==
    {r \in tab : r.id = id /\ r.started_at = started_at}

Larger(size, old) == IF old = NoSize \/ old = 0 \/ size > old THEN size ELSE old

\* info['started_at'] < self.run_started_at: the start parsed from the name
\* is a whole second, datetime.now() of start_recording is not.
StartsBefore(start) ==
    start < run_started_at \/ (start = run_started_at /\ run_micro)

\* _persist_segment for one file that passed the size test.
persist_segment(tab, f) ==
    IF recording_id = NoId \/ run_started_at = NoTime THEN tab
    ELSE IF StartsBefore(f.start) THEN tab
    ELSE LET seg_id == segment_uuid(f.start)
             ex == Existing(tab, seg_id, f.start)
         IN IF ex = {}
            THEN tab \cup {[id |-> seg_id,
                            recording_id |-> recording_id,
                            started_at |-> f.start,
                            ended_at |-> f.start + SegTicks,
                            audio_path |-> IF f.media = "audio" THEN FilePath(f) ELSE NoPath,
                            video_path |-> IF f.media = "video" THEN FilePath(f) ELSE NoPath,
                            file_size_bytes |-> FileSize(f),
                            status |-> "completed"]}
            ELSE LET old == CHOOSE r \in ex : TRUE
                 IN (tab \ {old}) \cup
                    {[old EXCEPT
                        !.audio_path = IF f.media = "audio" /\ old.audio_path \in {NoPath, ""}
                                       THEN FilePath(f) ELSE @,
                        !.video_path = IF f.media = "video" /\ old.video_path \in {NoPath, ""}
                                       THEN FilePath(f) ELSE @,
                        !.file_size_bytes = Larger(FileSize(f), @),
                        !.ended_at = f.start + SegTicks,
                        !.status = "completed"]}

\* _collect_segments over the files of one directory.
RECURSIVE collect_segments(_, _)
collect_segments(tab, fs) ==
    IF fs = {} THEN tab
    ELSE LET f == CHOOSE x \in fs : TRUE
         IN collect_segments(IF PassesGate(f) THEN persist_segment(tab, f) ELSE tab,
                             fs \ {f})

Scanned(media) ==
    IF (media = "audio" /\ audio_enabled) \/ (media = "video" /\ video_enabled)
    THEN {f \in dfiles : f.media = media} ELSE {}

\* The body of get_new_segments: the audio directory, then the video
\* directory.
DetectionPass ==
    /\ segTab' = collect_segments(collect_segments(segTab, Scanned("audio")),
                                  Scanned("video"))
    /\ persistedFiles' = persistedFiles \cup
          {<<f.media, f.secs>> : f \in
              {g \in Scanned("audio") \cup Scanned("video") :
                  /\ PassesGate(g)
                  /\ persist_segment({}, g) # {}}}
    /\ passes' = passes + 1
    /\ rerun' = (passes > 0 /\ passedFiles = dfiles)
    /\ passedFiles' = dfiles
    /\ UNCHANGED <<dfiles, sup>>

\* get_new_segments, called by the heartbeat loop of main.
get_new_segments ==
    /\ running
    /\ passes < MaxPasses
    /\ DetectionPass

\* A transcoder opens a segment file or writes more of it.
FileWrite(media, start, secs) ==
    /\ \A f \in dfiles : (f.media = media /\ f.start = start) => f.secs < secs
    /\ \A f \in dfiles : (f.media = media /\ f.start = start) =>
          \A t \in FileSeconds : ~(f.secs < t /\ t < secs)
    /\ (\A f \in dfiles : ~(f.media = media /\ f.start = start)) =>
          \A t \in FileSeconds : ~(t < secs)
    /\ dfiles' = {f \in dfiles : ~(f.media = media /\ f.start = start)}
                 \cup {[media |-> media, start |-> start, secs |-> secs]}
    /\ UNCHANGED <<segTab, passes, passedFiles, rerun, persistedFiles, sup>>

\* Python's truth of an optional string and of an optional integer.
Truthy(path) == path \notin {NoPath, ""}

NonZero(size) == size \notin {NoSize, 0}

\* A path that replaces the one the row has.
OverwritePath(path, old) == IF Truthy(path) THEN path ELSE old

\* if audio_path and not seg.audio_path: seg.audio_path = audio_path
MergePath(path, old) == IF Truthy(path) /\ ~Truthy(old) THEN path ELSE old

NoSup == [n |-> 0, audio |-> NoPath, video |-> NoPath, first_size |-> NoSize,
          max_size |-> NoSize, ended_at |-> NoTime, status |-> NoRow]

\* The history of the calls for one key, after one more call.
Supplied(h, ended_at, audio_path, video_path, size, status) ==
    [n |-> h.n + 1,
     audio |-> IF h.audio = NoPath /\ Truthy(audio_path) THEN audio_path ELSE h.audio,
     video |-> IF h.video = NoPath /\ Truthy(video_path) THEN video_path ELSE h.video,
     first_size |-> IF h.n = 0 THEN size ELSE h.first_size,
     max_size |-> IF size # NoSize /\ (h.max_size = NoSize \/ size > h.max_size)
                  THEN size ELSE h.max_size,
     ended_at |-> ended_at,
     status |-> status]

\* upsert_segment of the repositories, called with the id derived from the
\* channel and the start: db.get, then the insert or the merge, then commit.
UpsertSegment(start, ended_at, audio_path, video_path, size, status) ==
    /\ sup[start].n < MaxUpserts
    /\ LET seg_id == segment_uuid(start)
           ex == Existing(segTab, seg_id, start)
       IN segTab' =
            IF ex = {}
            THEN segTab \cup {[id |-> seg_id,
                               recording_id |-> 1,
                               started_at |-> start,
                               ended_at |-> ended_at,
                               audio_path |-> audio_path,
                               video_path |-> video_path,
                               file_size_bytes |-> size,
                               status |-> status]}
            ELSE LET seg == CHOOSE r \in ex : TRUE
                 IN (segTab \ {seg}) \cup
                    {[seg EXCEPT
                        !.audio_path = MergePath(audio_path, @),
                        !.video_path = MergePath(video_path, @),
                        !.file_size_bytes = IF NonZero(size) /\ (~NonZero(@) \/ size > @)
                                            THEN size ELSE @,
                        !.ended_at = ended_at,
                        !.status = status]}
    /\ sup' = [sup EXCEPT ![start] =
                  Supplied(@, ended_at, audio_path, video_path, size, status)]
    /\ UNCHANGED <<dfiles, passes, passedFiles, rerun, persistedFiles>>

InitStore ==
    /\ dfiles = {}
    /\ segTab = {}
    /\ passes = 0
    /\ passedFiles = {}
    /\ rerun = FALSE
    /\ persistedFiles = {}
    /\ sup = [start \in FileStarts |-> NoSup]


(***************************************************************************)
(* One run of DualHLSRecorder over the segment store: files of earlier     *)
(* runs in today's folder, start_recording, the files the transcoders      *)
(* write, the detection passes of main, stop_recording with its cleanups   *)
(* and the final pass of main.  ffprobe is installed and reports the       *)
(* seconds of media a file holds.                                          *)
(***************************************************************************)
OlderStarts == {0 - k * SegTicks : k \in 1..NumOlder}

RunStarts == {k * SegTicks : k \in 0..(NumRunStarts - 1)}

MediaEnabled(media) ==
    (media = "audio" /\ audio_enabled) \/ (media = "video" /\ video_enabled)

\* dur >= min_ok, with min_ok = max(10.0, self.segment_seconds * 0.92)
FullDuration(f) == f.secs >= 10 /\ f.secs * 100 >= segment_seconds * 92

\* _cleanup_partials over the files of the audio and the video directory.
CleanupPartials(fs) == {f \in fs : MediaEnabled(f.media) => FullDuration(f)}

\* The candidates of _cleanup_extras in one directory.
Candidates(fs, media) == {f \in fs : f.media = media /\ FullDuration(f)}

\* candidates.sort(key=lambda x: x[0]); keep = candidates[0][1]
Earliest(c) == CHOOSE f \in c : \A g \in c : f.start <= g.start

\* _cleanup_extras: every candidate but the earliest is unlinked.
CleanupExtras(fs) ==
    {f \in fs : (MediaEnabled(f.media) /\ FullDuration(f)) =>
                    f = Earliest(Candidates(fs, f.media))}

\* A whole segment file of an earlier run lies in today's folder.
OlderFile(media, start) ==
    /\ runs = 0
    /\ \A f \in dfiles : ~(f.media = media /\ f.start = start)
    /\ dfiles' = dfiles \cup {[media |-> media, start |-> start, secs |-> segment_seconds]}
    /\ UNCHANGED <<segTab, passes, passedFiles, rerun, persistedFiles, sup>>

\* start_recording of main: self.run_started_at = datetime.now(timezone.utc)
StartRun(micro) ==
    /\ start_recording("ok", TRUE)
    /\ run_micro' = micro

\* A transcoder of the run writes its segment files one after the other; a
\* file is named after the second it was opened in.
TranscoderWrite(media, start, secs) ==
    /\ running
    /\ child[media] = "alive"
    /\ start >= run_started_at
    /\ \A s \in RunStarts : s < start =>
          [media |-> media, start |-> s, secs |-> segment_seconds] \in dfiles
    /\ FileWrite(media, start, secs)

\* stop_recording of a running recorder, from the signals to the children
\* to _persist_recording_end.
StopRun ==
    /\ running
    /\ rpc = "idle"
    /\ stopCalls' = stopCalls + 1
    /\ lastStop' = "stopped"
    /\ stopAt' = rnow
    /\ termAt' = [l \in Legs |-> IF proc[l] /\ child[l] = "alive" THEN rnow ELSE termAt[l]]
    /\ child' = [l \in Legs |-> IF proc[l] /\ child[l] = "alive" THEN "exited" ELSE child[l]]
    /\ proc' = [l \in Legs |-> FALSE]
    /\ recording_id' = NoId
    /\ running' = FALSE
    /\ dfiles' = CleanupExtras(CleanupPartials(dfiles))
    /\ recordings' = persist_recording_end(recording_id')
    /\ stopDone' = TRUE
    /\ UNCHANGED <<rnow, audio_enabled, video_enabled, run_started_at, files,
                   rpc, stopLeg, runs, killAt>>
    /\ UNCHANGED <<segTab, passes, passedFiles, rerun, persistedFiles, sup>>

\* main, finally: get_new_segments after stop_recording has returned.
FinalPass ==
    /\ ~running
    /\ stopDone
    /\ passes <= MaxPasses
    /\ DetectionPass

InitRun == run_micro = FALSE


(***************************************************************************)
(* The ASR scheduler under a backlog.  Segments are counted by their       *)
(* start; a segment is waiting (audio path, status completed, no           *)
(* transcript, no dedupe key) or in flight (published, no transcript yet). *)
(* The horizon is shorter than the TTL of the dedupe keys.                 *)
(***************************************************************************)
LagTickSeconds == 5 * 60
LagLookback == (lookback_minutes * 60) \div LagTickSeconds
enqueue_limit == 200

LagStarts == 0..MaxLagTime

\* Segments persisted at once: one channel, many channels.
Arrivals == {1, enqueue_limit + 1}

\* Segment.started_at >= since, with since = now - lookback_minutes
LagWindow == {t \in LagStarts : t >= lnow - LagLookback}

\* Rows without a transcript: the dedupe key is no part of the query.
MissingAt(t) == waiting[t] + inflight[t]

RECURSIVE SumMissing(_)
SumMissing(S) ==
    IF S = {} THEN 0
    ELSE LET t == CHOOSE x \in S : TRUE IN MissingAt(t) + SumMissing(S \ {t})

\* order_by(desc(Segment.started_at)).limit(limit): the rows of start t
\* that the list holds.
ListedAt(t) ==
    LET room == enqueue_limit - SumMissing({u \in LagWindow : u > t})
    IN IF room <= 0 THEN 0
       ELSE IF MissingAt(t) <= room THEN MissingAt(t) ELSE room

\* Of the rows of one start the database returns any ListedAt(t): the fewest
\* and the most waiting segments among them.
FewestWaiting(t) == IF ListedAt(t) > inflight[t] THEN ListedAt(t) - inflight[t] ELSE 0

MostWaiting(t) == IF ListedAt(t) < waiting[t] THEN ListedAt(t) ELSE waiting[t]

\* The recorders persist n segments that start now.
LagCapture(n) ==
    /\ arrived[lnow] = 0
    /\ Cardinality({t \in LagStarts : arrived[t] > 0}) < MaxBatches
    /\ arrived' = [arrived EXCEPT ![lnow] = n]
    /\ waiting' = [waiting EXCEPT ![lnow] = n]
    /\ UNCHANGED <<lnow, inflight, lpassed>>

\* enqueue_missing, one pass of run_scheduler: the listed segments whose key
\* is set are skipped, the others get their key and are published.
enqueue_missing(take) ==
    /\ \A t \in LagStarts :
          IF t \in LagWindow
          THEN FewestWaiting(t) <= take[t] /\ take[t] <= MostWaiting(t)
          ELSE take[t] = 0
    /\ waiting' = [t \in LagStarts |-> waiting[t] - take[t]]
    /\ inflight' = [t \in LagStarts |-> inflight[t] + take[t]]
    /\ lpassed' = TRUE
    /\ UNCHANGED <<lnow, arrived>>

\* The database's order among rows of one start is open; it matters only
\* for the start at which the limit cuts the list.
Slack(t) == IF t \in LagWindow THEN MostWaiting(t) - FewestWaiting(t) ELSE 0

MaxSlack == CHOOSE k \in {Slack(t) : t \in LagStarts} : \A t \in LagStarts : Slack(t) <= k

Take(k) ==
    [t \in LagStarts |->
        IF t \notin LagWindow THEN 0
        ELSE IF FewestWaiting(t) + k < MostWaiting(t) THEN FewestWaiting(t) + k
        ELSE MostWaiting(t)]

\* Workers write the transcripts of n segments of one start.
LagTranscribed(t, n) ==
    /\ n > 0
    /\ n <= inflight[t]
    /\ inflight' = [inflight EXCEPT ![t] = @ - n]
    /\ UNCHANGED <<lnow, waiting, lpassed, arrived>>

\* Time passes; a continuously running scheduler has made its pass.
LagTick ==
    /\ lnow < MaxLagTime
    /\ lpassed
    /\ lnow' = lnow + 1
    /\ lpassed' = FALSE
    /\ UNCHANGED <<waiting, inflight, arrived>>

InitLag ==
    /\ lnow = 0
    /\ waiting = [t \in LagStarts |-> 0]
    /\ inflight = [t \in LagStarts |-> 0]
    /\ lpassed = FALSE
    /\ arrived = [t \in LagStarts |-> 0]


(***************************************************************************)
(* The repositories under concurrent writers.  Every writer has a session  *)
(* of its own: db.get reads the committed row, db.commit flushes the       *)
(* INSERT or the UPDATE the session holds.  An INSERT of a primary key     *)
(* another session committed in between raises IntegrityError.             *)
(***************************************************************************)
Writers == 1..NumWriters

NoCall == [table |-> "none", started_at |-> NoTime, audio_path |-> NoPath,
           video_path |-> NoPath, size |-> NoSize, text |-> ""]

TranscriptOf(tab, id, started_at) ==
    {t \in tab : t.segment_id = id /\ t.segment_started_at = started_at}

Committed(call) ==
    IF call.table = "segments"
    THEN Existing(segTab, segment_uuid(call.started_at), call.started_at)
    ELSE TranscriptOf(trTab, segment_uuid(call.started_at), call.started_at)

\* The row a call adds to a session that found none.
NewRow(call) ==
    IF call.table = "segments"
    THEN [id |-> segment_uuid(call.started_at),
          recording_id |-> 1,
          started_at |-> call.started_at,
          ended_at |-> call.started_at + SegTicks,
          audio_path |-> call.audio_path,
          video_path |-> call.video_path,
          file_size_bytes |-> call.size,
          status |-> "completed"]
    ELSE [segment_id |-> segment_uuid(call.started_at),
          segment_started_at |-> call.started_at,
          text |-> call.text]

\* The row a call makes of the row its session loaded.
Merged(call, row) ==
    IF call.table = "segments"
    THEN [row EXCEPT
            !.audio_path = MergePath(call.audio_path, @),
            !.video_path = MergePath(call.video_path, @),
            !.file_size_bytes = IF NonZero(call.size) /\ (~NonZero(@) \/ call.size > @)
                                THEN call.size ELSE @,
            !.ended_at = call.started_at + SegTicks,
            !.status = "completed"]
    ELSE [row EXCEPT !.text = call.text]

\* The UPDATE writes the attributes the session changed and leaves the
\* others as they are in the table.
Updated(cur, loaded, merged) ==
    [a \in DOMAIN cur |-> IF merged[a] # loaded[a] THEN merged[a] ELSE cur[a]]

\* seg = db.get(Segment, (segment_id, started_at)), and the like for
\* upsert_transcript
upsert_get(w, call) ==
    /\ upc[w] = "idle"
    /\ ucall' = [ucall EXCEPT ![w] = call]
    /\ usnap' = [usnap EXCEPT ![w] = Committed(call)]
    /\ upc' = [upc EXCEPT ![w] = "got"]
    /\ UNCHANGED <<segTab, trTab>>

\* db.add(...); db.commit(): nothing catches the IntegrityError of the
\* INSERT, the call raises.
upsert_commit(w) ==
    /\ upc[w] = "got"
    /\ LET call == ucall[w]
           cur == Committed(call)
           rows == IF usnap[w] = {}
                   THEN {NewRow(call)}
                   ELSE {Updated(c, l, Merged(call, l)) : c \in cur, l \in usnap[w]}
           raised == usnap[w] = {} /\ cur # {}
       IN /\ upc' = [upc EXCEPT ![w] = IF raised THEN "error" ELSE "done"]
          /\ segTab' = IF call.table = "segments" /\ ~raised
                       THEN (segTab \ cur) \cup rows ELSE segTab
          /\ trTab' = IF call.table = "transcripts" /\ ~raised
                      THEN (trTab \ cur) \cup rows ELSE trTab
    /\ UNCHANGED <<ucall, usnap>>

\* upsert_transcript, called by one writer alone.
upsert_transcript(started_at, text) ==
    /\ Existing(segTab, segment_uuid(started_at), started_at) # {}
    /\ LET call == [NoCall EXCEPT !.table = "transcripts",
                                  !.started_at = started_at, !.text = text]
           cur == Committed(call)
       IN /\ cur = {} \/ \E t \in cur : t.text # text
          /\ trTab' = (trTab \ cur) \cup
                         (IF cur = {} THEN {NewRow(call)}
                          ELSE {Merged(call, t) : t \in cur})
    /\ UNCHANGED <<segTab, upc, ucall, usnap>>

\* The detection pass that finds the whole audio file of the channel's next
\* segment; the files of the earlier segments are as the pass before saw
\* them.
NextSegmentPersisted ==
    /\ running
    /\ Cardinality(segTab) < MaxChanSegs
    /\ segTab' = persist_segment(segTab,
                    [media |-> "audio",
                     start |-> Cardinality(segTab) * SegTicks,
                     secs |-> segment_seconds])
    /\ UNCHANGED <<trTab, upc, ucall, usnap>>

default_limit == 100

\* A filter that leaves out the segment starting at since.
AfterSince(seg, since) == seg.started_at > since

\* seg_stmt.where(Segment.started_at >= since)
SinceFilter(seg, since) == seg.started_at >= since

\* list_recent_transcripts(channel_id, since, limit, offset): the channel's
\* segments from since on, newest first, offset and limit applied to them,
\* then each paired with its transcript if it has one.
list_recent_transcripts(channel, since, limit, offset) ==
    LET segs == {seg \in segTab : seg.id[1] = channel /\ SinceFilter(seg, since)}
        ordered == NewestFirst({seg.started_at : seg \in segs})
        last == IF offset + limit < Len(ordered) THEN offset + limit ELSE Len(ordered)
        page == SubSeq(ordered, offset + 1, last)
        SegAt(i) == CHOOSE seg \in segs : seg.started_at = page[i]
        withTr == SelectSeq([i \in 1..Len(page) |-> i],
                            LAMBDA i : TranscriptOf(trTab, SegAt(i).id, page[i]) # {})
    IN [k \in 1..Len(withTr) |->
          <<SegAt(withTr[k]),
            CHOOSE t \in TranscriptOf(trTab, SegAt(withTr[k]).id, page[withTr[k]]) : TRUE>>]

InitRepo ==
    /\ trTab = {}
    /\ upc = [w \in Writers |-> "idle"]
    /\ ucall = [w \in Writers |-> NoCall]
    /\ usnap = [w \in Writers |-> {}]


(***************************************************************************)
(* The paginated listings of the API.                                      *)
(***************************************************************************)
NoOffset == 0 - 1
NoResp == [kind |-> "none", limit |-> 0, offset |-> 0, count |-> 0,
           next_offset |-> NoOffset]

\* The listings that read one table with OFFSET and LIMIT.
TableListings == {"channels", "recordings", "segments", "visual-events", "screenshots"}

\* A next_offset given whenever the page has an item.
NextOffsetIfAny(count, limit, offset) ==
    IF count > 0 THEN offset + count ELSE NoOffset

\* next_offset = offset + len(items) if len(items) == limit else None
NextOffset(count, limit, offset) ==
    IF count = limit THEN offset + count ELSE NoOffset

\* stmt.offset(offset).limit(limit) over the rows of a table
OffsetLimit(rows, limit, offset) ==
    SubSeq(rows, offset + 1,
           IF offset + limit < Len(rows) THEN offset + limit ELSE Len(rows))

\* api_list_channels, api_list_recordings, api_list_segments,
\* api_list_visual_events, api_list_screenshots
api_list(kind, limit, offset) ==
    /\ LET items == OffsetLimit([i \in 1..rowCount |-> i], limit, offset)
       IN resp' = [kind |-> kind, limit |-> limit, offset |-> offset,
                   count |-> Len(items),
                   next_offset |-> NextOffset(Len(items), limit, offset)]
    /\ resp' # resp
    /\ UNCHANGED rowCount

\* api_list_transcripts, called without since
api_list_transcripts(limit, offset) ==
    /\ LET pairs == list_recent_transcripts(channel_id, NoTime, limit, offset)
       IN resp' = [kind |-> "transcripts", limit |-> limit, offset |-> offset,
                   count |-> Len(pairs),
                   next_offset |-> NextOffset(Len(pairs), limit, offset)]
    /\ resp' # resp
    /\ UNCHANGED rowCount

\* A row is added to the table the listings read.
AddRow ==
    /\ rowCount < MaxPageRows
    /\ rowCount' = rowCount + 1
    /\ UNCHANGED resp

\* A client requests GET /transcripts: first with offset 0, then with the
\* next_offset of the response before, as long as there is one.
WalkGet(limit) ==
    /\ IF walk_limit = 0 THEN TRUE ELSE limit = walk_limit /\ walk_next # NoOffset
    /\ LET offset == IF walk_limit = 0 THEN 0 ELSE walk_next
           pairs == list_recent_transcripts(channel_id, NoTime, limit, offset)
       IN /\ walk_items' = walk_items \o [k \in 1..Len(pairs) |-> pairs[k][1].started_at]
          /\ walk_next' = NextOffset(Len(pairs), limit, offset)
    /\ walk_limit' = limit

InitWalk ==
    /\ walk_limit = 0
    /\ walk_next = NoOffset
    /\ walk_items = << >>

InitPage ==
    /\ rowCount = 0
    /\ resp = NoResp

(***************************************************************************)
(* run_cleanup of the retention jobs.  Times are in days; the job runs on  *)
(* day MaxDay.                                                             *)
(***************************************************************************)
Days == 0..MaxDay
ImageSuffixes == {".jpg", ".jpeg", ".png"}
NoReport == [dry_run |-> TRUE, transcripts_cutoff |-> 0, embeddings_cutoff |-> 0,
             screenshots_cutoff |-> 0, transcripts |-> 0, embeddings |-> 0,
             screenshots |-> 0]

\* DELETE FROM <table> WHERE segment_started_at <= :cutoff
DeleteThroughCutoff(table, cutoff) == {d \in table : d > cutoff}

\* DELETE FROM <table> WHERE segment_started_at < :cutoff: the rows left
delete_older_than(table, cutoff) == {d \in table : ~(d < cutoff)}

\* SELECT count(*) FROM <table> WHERE segment_started_at < :cutoff
count_older_than(table, cutoff) == Cardinality({d \in table : d < cutoff})

\* The image files below the root whose st_mtime is before the cutoff.
OldShots(cutoff) == {f \in shots : f.suffix \in ImageSuffixes /\ f.mtime < cutoff}

run_cleanup(retain_transcripts_days, retain_embeddings_days, retain_screenshots_days, root_is_dir, dry_run) ==
    /\ jobs < MaxJobs
    /\ jobs' = jobs + 1
    /\ LET transcripts_cutoff == MaxDay - retain_transcripts_days
           embeddings_cutoff == MaxDay - retain_embeddings_days
           cutoff_ts == MaxDay - retain_screenshots_days
           to_delete_transcripts == count_older_than(trDays, transcripts_cutoff)
           to_delete_embeddings == count_older_than(embDays, embeddings_cutoff)
           old == IF root_is_dir THEN OldShots(cutoff_ts) ELSE {}
       IN /\ trDays' = IF ~dry_run /\ to_delete_transcripts # 0
                       THEN delete_older_than(trDays, transcripts_cutoff)
                       ELSE trDays
          /\ embDays' = IF ~dry_run /\ to_delete_embeddings # 0
                        THEN delete_older_than(embDays, embeddings_cutoff)
                        ELSE embDays
          /\ shots' = IF dry_run THEN shots ELSE shots \ old
          /\ report' = [dry_run |-> dry_run,
                        transcripts_cutoff |-> transcripts_cutoff,
                        embeddings_cutoff |-> embeddings_cutoff,
                        screenshots_cutoff |-> cutoff_ts,
                        transcripts |-> to_delete_transcripts,
                        embeddings |-> to_delete_embeddings,
                        screenshots |-> Cardinality(old)]

\* Rows and files come into being before the job runs.
InsertTranscript(day) ==
    /\ jobs = 0
    /\ day \notin trDays
    /\ trDays' = trDays \cup {day}
    /\ UNCHANGED <<embDays, shots, report, jobs>>

InsertEmbedding(day) ==
    /\ jobs = 0
    /\ day \notin embDays
    /\ day \in trDays
    /\ embDays' = embDays \cup {day}
    /\ UNCHANGED <<trDays, shots, report, jobs>>

SaveScreenshot(suffix, day) ==
    /\ jobs = 0
    /\ \A f \in shots : f.suffix # suffix
    /\ shots' = shots \cup {[suffix |-> suffix, mtime |-> day]}
    /\ UNCHANGED <<trDays, embDays, report, jobs>>

InitRet ==
    /\ trDays = {}
    /\ embDays = {}
    /\ shots = {}
    /\ report = NoReport
    /\ jobs = 0


(***************************************************************************)
(* main of the retention jobs: the command line, run_cleanup, and the      *)
(* count of the old entities and alerts that is printed.                   *)
(***************************************************************************)
\* count_older_than("entities") and count_older_than("alerts") compare
\* started_at and created_at with the cutoff.
NoPrinted == [entities_old |-> 0, alerts_old |-> 0]

\* parser.error prints the message and exits with status 2.
retention_refused(dry_run, yes) == ~dry_run /\ ~yes

retention_main(retain_transcripts_days, retain_embeddings_days, retain_screenshots_days, root_is_dir, dry_run, yes) ==
    IF retention_refused(dry_run, yes)
    THEN /\ retExit' = 2
         /\ UNCHANGED <<retVars, entDays, alertDays, retPrinted>>
    ELSE /\ run_cleanup(retain_transcripts_days, retain_embeddings_days,
                        retain_screenshots_days, root_is_dir, dry_run)
         /\ retExit' = 0
         /\ retPrinted' =
               [entities_old |-> count_older_than(entDays, MaxDay - retain_transcripts_days),
                alerts_old |-> count_older_than(alertDays, MaxDay - retain_transcripts_days)]
         /\ UNCHANGED <<entDays, alertDays>>

InsertEntity(day) ==
    /\ jobs = 0
    /\ retExit = NoCode
    /\ day \notin entDays
    /\ day \in trDays
    /\ entDays' = entDays \cup {day}
    /\ UNCHANGED <<alertDays, retExit, retPrinted>>

InsertAlert(day) ==
    /\ jobs = 0
    /\ retExit = NoCode
    /\ day \notin alertDays
    /\ alertDays' = alertDays \cup {day}
    /\ UNCHANGED <<entDays, retExit, retPrinted>>

InitPrune ==
    /\ entDays = {}
    /\ alertDays = {}
    /\ retExit = NoCode
    /\ retPrinted = NoPrinted


(***************************************************************************)
(* The destructive commands of the command line: freshreset, db truncate   *)
(* and db retention.                                                       *)
(***************************************************************************)
Supervisors == {"recorder", "archive_recorder"}
Consumers == {"asr_worker", "vision_worker", "nlp_worker"}
ProcKinds == Supervisors \cup Consumers \cup {"ffmpeg"}

\* The processes the pkill patterns of _kill_processes match.
KillPatterns == {"recorder", "ffmpeg", "asr_worker", "vision_worker"}

NoCmd == [cmd |-> "none", yes |-> FALSE, dry_run |-> FALSE,
          include_channels |-> FALSE, rc |-> 0]

\* A command that goes on without the confirmation.
NeverRefused(yes) == FALSE

\* if not yes: typer.echo("Refusing to run without --yes"); raise typer.Exit(2)
cli_refused(yes) == ~yes

\* TABLES of truncate_db, and channels with --include-channels
Truncated(include_channels) ==
    IF include_channels THEN {"derived", "channels"} ELSE {"derived"}

\* The folders _wipe_data_roots removes.
Wiped(today_only) == IF today_only THEN {"today"} ELSE {"today", "older"}

Invoked(cmd, yes, dry_run, include_channels, rc) ==
    /\ cliCalls < MaxCliCalls
    /\ cliCalls' = cliCalls + 1
    /\ cliLast' = [cmd |-> cmd, yes |-> yes, dry_run |-> dry_run,
                   include_channels |-> include_channels, rc |-> rc]

\* fresh_reset; rc is the exit status of the truncate_db subprocess.
fresh_reset(include_channels, yes, today_only, rc) ==
    /\ Invoked("freshreset", yes, FALSE, include_channels, rc)
    /\ IF cli_refused(yes)
       THEN /\ cliExit' = 2
            /\ cliLog' = <<>>
            /\ UNCHANGED <<procs, tables, dataDirs, aliveAtTruncate>>
       ELSE /\ procs' = procs \ KillPatterns
            /\ aliveAtTruncate' = procs'
            /\ tables' = IF rc = 0 THEN tables \ Truncated(include_channels) ELSE tables
            /\ dataDirs' = IF rc = 0 THEN dataDirs \ Wiped(today_only) ELSE dataDirs
            /\ cliLog' = IF rc = 0 THEN <<"kill", "ports", "truncate", "wipe">>
                         ELSE <<"kill", "ports", "truncate">>
            /\ cliExit' = rc

\* db truncate
db_truncate(include_channels, yes, rc) ==
    /\ Invoked("truncate", yes, FALSE, include_channels, rc)
    /\ IF cli_refused(yes)
       THEN /\ cliExit' = 2
            /\ cliLog' = <<>>
            /\ UNCHANGED <<procs, tables, dataDirs, aliveAtTruncate>>
       ELSE /\ tables' = IF rc = 0 THEN tables \ Truncated(include_channels) ELSE tables
            /\ aliveAtTruncate' = procs
            /\ cliLog' = <<"truncate">>
            /\ cliExit' = rc
            /\ UNCHANGED <<procs, dataDirs>>

\* db retention: refuses, or runs the retention jobs with --dry-run or --yes.
db_retention(transcripts_days, embeddings_days, dry_run, yes) ==
    /\ Invoked("retention", yes, dry_run, FALSE, 0)
    /\ IF ~dry_run /\ cli_refused(yes)
       THEN /\ cliExit' = 2
            /\ cliLog' = <<>>
            /\ UNCHANGED <<retVars, pruneVars>>
       ELSE /\ retention_main(transcripts_days, embeddings_days, MaxDay, FALSE,
                              dry_run, ~dry_run)
            /\ cliExit' = retExit'
            /\ cliLog' = <<"retention">>
    /\ UNCHANGED <<procs, tables, dataDirs, aliveAtTruncate>>

\* Before the first command: processes are started, rows and files written.
StartProcess(kind) ==
    /\ cliCalls = 0
    /\ kind \notin procs
    /\ procs' = procs \cup {kind}
    /\ UNCHANGED <<tables, dataDirs, cliExit, cliCalls, cliLast, cliLog,
                   aliveAtTruncate>>

WriteData(table, dir) ==
    /\ cliCalls = 0
    /\ procs # {}
    /\ table \notin tables \/ dir \notin dataDirs
    /\ tables' = tables \cup {table}
    /\ dataDirs' = dataDirs \cup {dir}
    /\ UNCHANGED <<procs, cliExit, cliCalls, cliLast, cliLog, aliveAtTruncate>>

InitCli ==
    /\ procs = {}
    /\ tables = {}
    /\ dataDirs = {}
    /\ cliExit = NoCode
    /\ cliCalls = 0
    /\ cliLast = NoCmd
    /\ cliLog = <<>>
    /\ aliveAtTruncate = {}


(***************************************************************************)
(* run_scheduler of the ASR scheduler: the interval between two cycles.    *)
(* The jitter of random.uniform(-0.2, 0.2) is drawn in hundredths.         *)
(***************************************************************************)
min_interval == 10
min_sleep == 5
NoArgs == [interval_seconds |-> 0, max_interval_seconds |-> 0]
Jitters == {0 - 20, 0 - 10, 0, 10, 20}

Min(a, b) == IF a < b THEN a ELSE b
Max(a, b) == IF a > b THEN a ELSE b

\* max(10, interval_seconds)
BaseInterval(interval_seconds) == Max(min_interval, interval_seconds)

\* A doubling that has no ceiling.
DoubledUncapped(interval, max_interval_seconds) == interval * 2

\* min(max_interval_seconds, int(current_interval * 2))
Doubled(interval, max_interval_seconds) == Min(max_interval_seconds, interval * 2)

\* max(5, int(current_interval * (1 + jitter)))
SleepFor(interval, jitter) == Max(min_sleep, (interval * (100 + jitter)) \div 100)

\* run_scheduler is called: current_interval = max(10, interval_seconds)
run_scheduler(interval_seconds, max_interval_seconds) ==
    /\ sched_args = NoArgs
    /\ sched_args' = [interval_seconds |-> interval_seconds,
                      max_interval_seconds |-> max_interval_seconds]
    /\ current_interval' = BaseInterval(interval_seconds)
    /\ UNCHANGED <<fails, sleep_for>>

\* One turn of the loop: enqueue_missing returns or raises, then the sleep.
scheduler_cycle(ok, jitter) ==
    /\ sched_args # NoArgs
    /\ ok \/ fails < MaxFails
    /\ current_interval' =
          IF ok THEN BaseInterval(sched_args.interval_seconds)
          ELSE Doubled(current_interval, sched_args.max_interval_seconds)
    /\ fails' = IF ok THEN 0 ELSE fails + 1
    /\ sleep_for' = SleepFor(current_interval', jitter)
    /\ UNCHANGED sched_args

InitBack ==
    /\ sched_args = NoArgs
    /\ current_interval = 0
    /\ fails = 0
    /\ sleep_for = 0


(***************************************************************************)
(* The NLP stage: run_scheduler of the NLP scheduler and the two tasks     *)
(* entities_for_transcript and alerts_for_transcript.  A transcript text   *)
(* is a sequence of words joined by single spaces.                         *)
(***************************************************************************)
NlpSegIds == 1..NumNlpSegs

Words == {"khabar", "fi"}

WordLen(w) == IF w = "fi" THEN 2 ELSE 6

Texts == {<< >>, <<"fi", "khabar">>, <<"khabar", "khabar">>}

NlpTasks == {"entities_for_transcript", "alerts_for_transcript"}

NoExec == [task |-> "none"]

NoPos == 0 - 1

\* the dictionaries _load_entity_dictionaries and _load_alert_dictionaries
\* read: a list of (label or category, phrases)
EntityDictionaries == IF dictionaries THEN <<[label |-> "TOPIC", items |-> <<"khabar">>]>> ELSE << >>

AlertDictionaries == IF dictionaries THEN <<[label |-> "breaking", items |-> <<"khabar", "harb">>]>> ELSE << >>

\* the transcript row of a segment: db.get(Transcript, ...) is None if none
TranscriptRows(segment_id) == {tr \in nlp_transcripts : tr.segment_id = segment_id}

transcript_never_none(segment_id) == FALSE

tr_is_none(segment_id) == TranscriptRows(segment_id) = {}

seg_is_none(segment_id) == segment_id \notin nlp_segments

TextOf(segment_id) == IF TranscriptRows(segment_id) = {} THEN << >> ELSE (CHOOSE tr \in TranscriptRows(segment_id) : TRUE).text

\* the offset of word i of a text
RECURSIVE CharOffset(_, _)
CharOffset(text, i) == IF i <= 1 THEN 0 ELSE CharOffset(text, i - 1) + WordLen(text[i - 1]) + 1

\* str.find for a phrase that is one word: the offset of its first
\* occurrence, -1 if there is none
Find(text, cand) == IF \E i \in 1..Len(text) : text[i] = cand THEN CharOffset(text, CHOOSE i \in 1..Len(text) : text[i] = cand /\ \A j \in 1..(i - 1) : text[j] # cand) ELSE NoPos

RECURSIVE MatchItems(_, _, _, _)
MatchItems(segment_id, text, label, items) ==
    IF items = << >> THEN << >>
    ELSE LET cand == Head(items)
             idx == Find(text, cand)
             rest == MatchItems(segment_id, text, label, Tail(items))
         IN  IF idx >= 0
             THEN <<[segment_id |-> segment_id, text |-> cand, label |-> label,
                     char_start |-> idx, char_end |-> idx + WordLen(cand)]>> \o rest
             ELSE rest

RECURSIVE MatchDictionaries(_, _, _)
MatchDictionaries(segment_id, text, dicts) ==
    IF dicts = << >> THEN << >>
    ELSE MatchItems(segment_id, text, Head(dicts).label, Head(dicts).items)
            \o MatchDictionaries(segment_id, text, Tail(dicts))

\* the fallback of entities_for_transcript: the words of four letters or
\* more, each once, in the order of the text
RECURSIVE HeuristicTerms(_, _, _)
HeuristicTerms(segment_id, text, seen) ==
    IF text = << >> THEN << >>
    ELSE LET w == Head(text)
         IN  IF WordLen(w) >= 4 /\ w \notin seen
             THEN <<[segment_id |-> segment_id, text |-> w, label |-> "TERM",
                     char_start |-> NoPos, char_end |-> NoPos]>>
                     \o HeuristicTerms(segment_id, Tail(text), seen \cup {w})
             ELSE HeuristicTerms(segment_id, Tail(text), seen)

EntityRows(segment_id) ==
    IF EntityDictionaries # << >>
    THEN MatchDictionaries(segment_id, TextOf(segment_id), EntityDictionaries)
    ELSE HeuristicTerms(segment_id, TextOf(segment_id), {})

AlertRows(segment_id) == MatchDictionaries(segment_id, TextOf(segment_id), AlertDictionaries)

RemoveAt(q, i) == SubSeq(q, 1, i - 1) \o SubSeq(q, i + 1, Len(q))

\* self.retry(exc=...): the message is sent again with one retry more
\* unless max_retries have been made, and then exc is raised
CanRetry(retries) == retries < nlp_max_retries

self_retry(i) ==
    LET msg == nlp_queue[i]
    IN  /\ nlp_queue' = IF CanRetry(msg.retries)
                        THEN RemoveAt(nlp_queue, i) \o <<[msg EXCEPT !.retries = @ + 1]>>
                        ELSE RemoveAt(nlp_queue, i)
        /\ nlp_last' = [task |-> msg.task, segment_id |-> msg.segment_id,
                        retries |-> msg.retries, missing |-> TRUE,
                        outcome |-> IF CanRetry(msg.retries) THEN "retry" ELSE "failure"]

\* one pass of the loop of run_scheduler
nlp_run_scheduler(since) ==
    LET segs == {s \in nlp_segments : s >= since /\ ~tr_is_none(s)}
        Enq[n \in 0..NumNlpSegs] ==
            IF n = 0 THEN << >>
            ELSE IF (NumNlpSegs + 1 - n) \in segs
                 THEN <<[task |-> "entities_for_transcript", segment_id |-> NumNlpSegs + 1 - n, retries |-> 0],
                        [task |-> "alerts_for_transcript", segment_id |-> NumNlpSegs + 1 - n, retries |-> 0]>> \o Enq[n - 1]
                 ELSE Enq[n - 1]
    IN  /\ nlp_passes < MaxNlpPasses
        /\ nlp_passes' = nlp_passes + 1
        /\ nlp_queue' = nlp_queue \o Enq[NumNlpSegs]
        /\ UNCHANGED <<nlp_segments, nlp_transcripts, dictionaries, entities, alerts,
                       nlp_execs, nlp_last>>

nlp_task(i, task, rows) ==
    LET msg == nlp_queue[i]
    IN  /\ msg.task = task
        /\ nlp_execs' = nlp_execs + 1
        /\ IF tr_is_none(msg.segment_id) \/ seg_is_none(msg.segment_id)
           THEN /\ self_retry(i)
                /\ UNCHANGED <<entities, alerts>>
           ELSE /\ nlp_queue' = RemoveAt(nlp_queue, i)
                /\ IF task = "entities_for_transcript"
                   THEN entities' = entities \o rows /\ UNCHANGED alerts
                   ELSE alerts' = alerts \o rows /\ UNCHANGED entities
                /\ nlp_last' = [task |-> msg.task, segment_id |-> msg.segment_id,
                                retries |-> msg.retries, missing |-> FALSE,
                                outcome |-> "success"]
        /\ UNCHANGED <<nlp_segments, nlp_transcripts, dictionaries, nlp_passes>>

entities_for_transcript(i) == nlp_task(i, "entities_for_transcript", EntityRows(nlp_queue[i].segment_id))

alerts_for_transcript(i) == nlp_task(i, "alerts_for_transcript", AlertRows(nlp_queue[i].segment_id))

\* the recorder persists a segment
NlpSegmentPersisted(segment_id) ==
    /\ segment_id \notin nlp_segments
    /\ nlp_segments' = nlp_segments \cup {segment_id}
    /\ UNCHANGED <<nlp_transcripts, dictionaries, nlp_queue, entities, alerts,
                   nlp_passes, nlp_execs, nlp_last>>

\* the ASR worker writes the transcript of a segment (upsert_transcript)
NlpTranscriptWritten(segment_id, text) ==
    /\ segment_id \in nlp_segments
    /\ nlp_transcripts' = {tr \in nlp_transcripts : tr.segment_id # segment_id}
                             \cup {[segment_id |-> segment_id, text |-> text]}
    /\ nlp_transcripts' # nlp_transcripts
    /\ UNCHANGED <<nlp_segments, dictionaries, nlp_queue, entities, alerts,
                   nlp_passes, nlp_execs, nlp_last>>

\* the retention job deletes the transcript of a segment
NlpTranscriptPruned(segment_id) ==
    /\ ~tr_is_none(segment_id)
    /\ nlp_transcripts' = {tr \in nlp_transcripts : tr.segment_id # segment_id}
    /\ UNCHANGED <<nlp_segments, dictionaries, nlp_queue, entities, alerts,
                   nlp_passes, nlp_execs, nlp_last>>

\* the retention policy of the segments table drops the chunk of a segment
NlpSegmentDropped(segment_id) ==
    /\ segment_id \in nlp_segments
    /\ nlp_segments' = nlp_segments \ {segment_id}
    /\ UNCHANGED <<nlp_transcripts, dictionaries, nlp_queue, entities, alerts,
                   nlp_passes, nlp_execs, nlp_last>>

\* the dictionary folders are filled
DictionariesWritten ==
    /\ ~dictionaries
    /\ dictionaries' = TRUE
    /\ UNCHANGED <<nlp_segments, nlp_transcripts, nlp_queue, entities, alerts,
                   nlp_passes, nlp_execs, nlp_last>>

InitNlp ==
    /\ nlp_segments = {}
    /\ nlp_transcripts = {}
    /\ dictionaries = FALSE
    /\ nlp_queue = << >>
    /\ entities = << >>
    /\ alerts = << >>
    /\ nlp_passes = 0
    /\ nlp_execs = 0
    /\ nlp_last = NoExec


(***************************************************************************)
(* The OCR worker: ocr_segment.  Times are in milliseconds, a box is       *)
(* <<x, y, w, h>> in frame coordinates, and what the OCR engine reads in   *)
(* a region of a frame is an input: one token with its text and box.       *)
(***************************************************************************)
Regions == <<"full", "headline", "ticker", "center">>

\* _sample_timestamps: round(k / fps, 3) for every k / fps below the duration
SampleTimestamps(duration_ms, fps) == [k \in 1..((duration_ms * fps + 999) \div 1000) |-> (2000 * (k - 1) + fps) \div (2 * fps)]

Timestamps == SampleTimestamps(video_duration_ms, ocr_fps)

Boxes == {<<0, 0, 10, 10>>, <<3, 3, 10, 10>>, <<3, 3, 7, 7>>}

OcrTexts == {"khabar", "fi"}

\* _iou(a, b) >= threshold, the threshold in percent
IouAtLeast(a, b, pct) ==
    LET inter_w == Max(0, Min(a[1] + a[3], b[1] + b[3]) - Max(a[1], b[1]))
        inter_h == Max(0, Min(a[2] + a[4], b[2] + b[4]) - Max(a[2], b[2]))
        inter == inter_w * inter_h
        union == a[3] * a[4] + b[3] * b[4] - inter
    IN  inter > 0 /\ union > 0 /\ inter * 100 >= pct * union

\* _text_sim in percent, for texts of one word without a letter in common
TextSim(x, y) == IF x = y THEN 100 ELSE 0

UnionBox(c, b) ==
    LET nx == Min(c[1], b[1])
        ny == Min(c[2], b[2])
        nx2 == Max(c[1] + c[3], b[1] + b[3])
        ny2 == Max(c[2] + c[4], b[2] + b[4])
    IN  <<nx, ny, nx2 - nx, ny2 - ny>>

\* the aggregated frames of a region, in time order
AggregatedFrames(region) == SelectSeq(ocr_frames, LAMBDA e : region \in e.regions)

NewSpan(it, region) == [start |-> it.ts, end |-> it.ts, text |-> it.text, bbox |-> it.bbox, shot |-> region]

Extends(current, it) ==
    /\ it.ts - current.end <= ocr_merge_window_ms
    /\ TextSim(current.text, it.text) >= ocr_text_sim_threshold
    /\ IouAtLeast(current.bbox, it.bbox, ocr_iou_threshold)

\* the walk over the aggregated frames of one region
RECURSIVE MergeSpans(_, _, _)
MergeSpans(items, current, region) ==
    IF items = << >> THEN <<current>>
    ELSE LET it == Head(items)
         IN  IF Extends(current, it)
             THEN MergeSpans(Tail(items), [current EXCEPT !.end = it.ts, !.bbox = UnionBox(current.bbox, it.bbox)], region)
             ELSE <<current>> \o MergeSpans(Tail(items), NewSpan(it, region), region)

RegionSpans(region) ==
    LET items == AggregatedFrames(region)
    IN  IF items = << >> THEN << >> ELSE MergeSpans(Tail(items), NewSpan(Head(items), region), region)

RECURSIVE Spans(_)
Spans(regions) == IF regions = << >> THEN << >> ELSE RegionSpans(Head(regions)) \o Spans(Tail(regions))

\* the events of the tokens, written with ocr_write_raw
RECURSIVE RawEvents(_)
RawEvents(frames) ==
    IF frames = << >> THEN << >>
    ELSE LET it == Head(frames)
             Raw[n \in 0..Len(Regions)] ==
                 IF n = 0 THEN << >>
                 ELSE Raw[n - 1] \o (IF Regions[n] \in it.regions
                                     THEN <<[timestamp_offset |-> it.ts, end_offset |-> it.ts, text |-> it.text,
                                             bbox |-> it.bbox, aggregated |-> FALSE, shot |-> Regions[n]]>>
                                     ELSE << >>)
         IN  Raw[Len(Regions)] \o RawEvents(Tail(frames))

SpanEvent(sp) == [timestamp_offset |-> sp.start, end_offset |-> sp.end, text |-> sp.text, bbox |-> sp.bbox, aggregated |-> TRUE, shot |-> sp.shot]

SpanEvents(spans) == [k \in 1..Len(spans) |-> SpanEvent(spans[k])]

\* the OCR engine reads a text in the frame at Timestamps[idx], in the full
\* frame and in the bands the text lies in
OcrFrameRead(idx, text, bbox, bands) ==
    /\ ocr_runs = 0
    /\ Len(ocr_frames) < MaxOcrFrames
    /\ IF ocr_frames = << >> THEN TRUE ELSE ocr_frames[Len(ocr_frames)].ts < Timestamps[idx]
    /\ ocr_frames' = Append(ocr_frames, [ts |-> Timestamps[idx], text |-> text, bbox |-> bbox,
                                         regions |-> {"full"} \cup bands])
    /\ UNCHANGED <<visual_events, vision_status, ocr_runs>>

ocr_segment(ocr_write_raw) ==
    /\ ocr_runs < MaxOcrRuns
    /\ ocr_runs' = ocr_runs + 1
    /\ visual_events' = visual_events \o (IF ocr_write_raw THEN RawEvents(ocr_frames) ELSE << >>)
                                      \o SpanEvents(Spans(Regions))
    /\ UNCHANGED <<ocr_frames, vision_status>>

InitOcr ==
    /\ ocr_frames = << >>
    /\ visual_events = << >>
    /\ vision_status = "pending"
    /\ ocr_runs = 0


(***************************************************************************)
(* The outcomes transcribe_segment counts in ASR_TASK_OUTCOMES, and the     *)
(* truncation of the tables while messages are in the queue.               *)
(***************************************************************************)
Counted(w, outcome) == outcomes' = [outcomes EXCEPT ![w] = Append(@, outcome)]

\* the task starts; without a segment row or an audio path it counts a retry
TaskStart(w, m) ==
    /\ WStart(w, m)
    /\ outcomes' = [outcomes EXCEPT ![w] = IF segRow[m.seg].audio_path = NoPath THEN <<"retry">> ELSE << >>]

\* _get_model; a load error counts a retry
TaskModel(w, ok) ==
    /\ WModel(w, ok)
    /\ IF ok THEN UNCHANGED outcomes ELSE Counted(w, "retry")

TaskTranscribe(w, ok) == WTranscribe(w, ok) /\ UNCHANGED outcomes

\* self.retry raises inside the try block of the task: the handler of
\* except Exception counts an error
TaskRetry(w) == WRetry(w) /\ Counted(w, "error")

TaskError(w) == WError(w) /\ Counted(w, "error")

TaskComplete(w) == WComplete(w) /\ Counted(w, "success")

\* truncate_db: the segments and the transcripts are deleted; the broker and
\* Redis keep what they hold
SegmentsTruncated ==
    /\ \E s \in Segs : segRow[s].status # NoRow
    /\ segRow' = [s \in Segs |-> [audio_path |-> NoPath, status |-> NoRow, asr_status |-> "pending"]]
    /\ transcript' = [s \in Segs |-> NoRow]
    /\ UNCHANGED <<now, redisKey, queue, spc, todo, passMode, inc, wpc, wmsg,
                   model_loaded, pubs, execs, done, skipBy>>

InitTask == outcomes = [w \in Workers |-> << >>]


(***************************************************************************)
(* _get_model in one worker process.  The worker runs its task invocations *)
(* one at a time with the solo pool and on several threads with the        *)
(* threads pool; an invocation tests _MODEL and constructs the model in    *)
(* two steps.                                                              *)
(***************************************************************************)
Threads == 1..NumThreads

NoPool == "none"

\* asr worker --pool: the worker process starts
asr_worker(p) ==
    /\ pool = NoPool
    /\ pool' = p
    /\ UNCHANGED <<cached_model, tpc, got, loads, calls>>

\* the worker hands a task to a thread; the solo pool has one task at a time
CacheTaskStart(t) ==
    /\ pool # NoPool
    /\ tpc[t] = "idle"
    /\ calls[t] < MaxCalls
    /\ pool = "solo" => \A u \in Threads : tpc[u] = "idle"
    /\ calls' = [calls EXCEPT ![t] = @ + 1]
    /\ tpc' = [tpc EXCEPT ![t] = "test"]
    /\ got' = [got EXCEPT ![t] = 0]
    /\ UNCHANGED <<pool, cached_model, loads>>

IsNone(m) == m = 0

\* if _MODEL is None
get_model_test(t) ==
    /\ tpc[t] = "test"
    /\ IF IsNone(cached_model)
       THEN /\ tpc' = [tpc EXCEPT ![t] = "load"]
            /\ UNCHANGED got
       ELSE /\ tpc' = [tpc EXCEPT ![t] = "idle"]
            /\ got' = [got EXCEPT ![t] = cached_model]
    /\ UNCHANGED <<pool, cached_model, loads, calls>>

\* _MODEL = WhisperModel(...), or the import or the constructor raises
get_model_load(t, ok) ==
    /\ tpc[t] = "load"
    /\ tpc' = [tpc EXCEPT ![t] = "idle"]
    /\ IF ok
       THEN /\ loads' = loads + 1
            /\ cached_model' = loads + 1
            /\ got' = [got EXCEPT ![t] = loads + 1]
       ELSE UNCHANGED <<loads, cached_model, got>>
    /\ UNCHANGED <<pool, calls>>

InitCache ==
    /\ pool = NoPool
    /\ cached_model = 0
    /\ tpc = [t \in Threads |-> "idle"]
    /\ got = [t \in Threads |-> 0]
    /\ loads = 0
    /\ calls = [t \in Threads |-> 0]


(***************************************************************************)
(* init_engine and get_session on the threads of one process, one action   *)
(* per read or write of the globals _engine and SessionLocal.              *)
(***************************************************************************)
\* a thread uses the database: get_db of the API and the tasks call
\* init_engine and then get_session, scripts call get_session alone
get_db(t, with_init) ==
    /\ dpc[t] \in {"idle", "session"}
    /\ dpc' = [dpc EXCEPT ![t] = IF with_init THEN "engine_test" ELSE "factory_test"]
    /\ ret' = [ret EXCEPT ![t] = "factory_test"]
    /\ UNCHANGED <<engine, SessionLocal, engines>>

\* init_engine: if _engine is None
init_engine_test(t) ==
    /\ dpc[t] = "engine_test"
    /\ dpc' = [dpc EXCEPT ![t] = IF engine = 0 THEN "create_engine" ELSE ret[t]]
    /\ UNCHANGED <<engine, SessionLocal, ret, engines>>

\* _engine = create_engine(...)
init_engine_create(t) ==
    /\ dpc[t] = "create_engine"
    /\ engines < MaxEngines
    /\ engines' = engines + 1
    /\ engine' = engines + 1
    /\ dpc' = [dpc EXCEPT ![t] = "sessionmaker"]
    /\ UNCHANGED <<SessionLocal, ret>>

\* SessionLocal = sessionmaker(bind=_engine, ...)
init_engine_sessionmaker(t) ==
    /\ dpc[t] = "sessionmaker"
    /\ SessionLocal' = engine
    /\ dpc' = [dpc EXCEPT ![t] = ret[t]]
    /\ UNCHANGED <<engine, ret, engines>>

\* get_session: if SessionLocal is None: init_engine()
get_session_test(t) ==
    /\ dpc[t] = "factory_test"
    /\ dpc' = [dpc EXCEPT ![t] = IF SessionLocal = 0 THEN "engine_test" ELSE "assert"]
    /\ ret' = [ret EXCEPT ![t] = "assert"]
    /\ UNCHANGED <<engine, SessionLocal, engines>>

\* assert SessionLocal is not None; db = SessionLocal()
get_session_assert(t) ==
    /\ dpc[t] = "assert"
    /\ dpc' = [dpc EXCEPT ![t] = IF SessionLocal = 0 THEN "AssertionError" ELSE "session"]
    /\ UNCHANGED <<engine, SessionLocal, ret, engines>>

InitDb ==
    /\ engine = 0
    /\ SessionLocal = 0
    /\ dpc = [t \in Threads |-> "idle"]
    /\ ret = [t \in Threads |-> "factory_test"]
    /\ engines = 0


Init ==
    /\ InitAsr /\ InitRec /\ InitArch /\ InitStore /\ InitRepo /\ InitPage /\ InitRet
    /\ InitPrune /\ InitCli /\ InitBack
    /\ InitNlp /\ InitOcr /\ InitTask
    /\ InitCache /\ InitDb /\ InitRun /\ InitLag /\ InitWalk

OnlyAsr(A) == A /\ UNCHANGED <<ranPass, recVars, archVars, storeVars, repoVars, pageVars, retVars, moreVars>>

AsrNext ==
    \/ \E s \in Segs, audio_path \in {NoPath, "a.wav"}, status \in {"created", "completed"} :
          OnlyAsr(upsert_segment(s, audio_path, status))
    \/ \E p \in Scheds, mode \in {"sched", "manual"} : OnlyAsr(PassBegin(p, mode))
    \/ \E p \in Scheds : OnlyAsr(SetKey(p))
    \/ \E p \in Scheds : OnlyAsr(MarkQueued(p))
    \/ \E p \in Scheds : OnlyAsr(Publish(p))
    \/ \E p \in Scheds : OnlyAsr(SchedRestart(p))
    \/ \E w \in Workers, m \in queue : OnlyAsr(WStart(w, m))
    \/ \E w \in Workers, ok \in BOOLEAN : OnlyAsr(WModel(w, ok))
    \/ \E w \in Workers, ok \in BOOLEAN : OnlyAsr(WTranscribe(w, ok))
    \/ \E w \in Workers : OnlyAsr(WRetry(w))
    \/ \E w \in Workers : OnlyAsr(WError(w))
    \/ \E w \in Workers : OnlyAsr(WComplete(w))
    \/ OnlyAsr(Tick)

AsrSpec == Init /\ [][AsrNext]_vars

(***************************************************************************)
(* The running scheduler: every process is a run_scheduler loop that is    *)
(* not stopped.  Its sleep is at most 1.2 * max_interval_seconds (360 s),  *)
(* so each tick holds at least one whole pass of every loop.               *)
(***************************************************************************)
LivePassBegin(p) ==
    /\ PassBegin(p, "sched")
    /\ ranPass' = [ranPass EXCEPT ![p] = TRUE]
    /\ UNCHANGED <<recVars, archVars, storeVars, repoVars, pageVars, retVars, moreVars>>

LiveTick ==
    /\ \A p \in Scheds : ranPass[p]
    /\ Tick
    /\ ranPass' = [p \in Scheds |-> FALSE]
    /\ UNCHANGED <<recVars, archVars, storeVars, repoVars, pageVars, retVars, moreVars>>

AsrLiveNext ==
    \/ \E s \in Segs, audio_path \in {NoPath, "a.wav"}, status \in {"created", "completed"} :
          OnlyAsr(upsert_segment(s, audio_path, status))
    \/ \E p \in Scheds : LivePassBegin(p)
    \/ \E p \in Scheds : OnlyAsr(SetKey(p))
    \/ \E p \in Scheds : OnlyAsr(MarkQueued(p))
    \/ \E p \in Scheds : OnlyAsr(Publish(p))
    \/ \E w \in Workers, m \in queue : OnlyAsr(WStart(w, m))
    \/ \E w \in Workers, ok \in BOOLEAN : OnlyAsr(WModel(w, ok))
    \/ \E w \in Workers, ok \in BOOLEAN : OnlyAsr(WTranscribe(w, ok))
    \/ \E w \in Workers : OnlyAsr(WRetry(w))
    \/ \E w \in Workers : OnlyAsr(WError(w))
    \/ \E w \in Workers : OnlyAsr(WComplete(w))
    \/ LiveTick

AsrLiveSpec == Init /\ [][AsrLiveNext]_vars

(***************************************************************************)
(* The recorder and the archive recorder as specifications.                *)
(***************************************************************************)
OnlyRec(A) == A /\ UNCHANGED <<asrVars, archVars, storeVars, repoVars, pageVars, retVars, moreVars>>

RecNext ==
    \/ \E audio \in BOOLEAN, video \in BOOLEAN : OnlyRec(load_config(audio, video))
    \/ \E outcome \in {"ok", "audio_fails", "video_fails"}, persisted \in BOOLEAN :
          OnlyRec(start_recording(outcome, persisted))
    \/ OnlyRec(stop_recording)
    \/ OnlyRec(stop_process_term)
    \/ OnlyRec(stop_process_exited)
    \/ OnlyRec(stop_process_kill)
    \/ OnlyRec(stop_recording_finish)
    \/ \E l \in Legs : OnlyRec(ChildExit(l))
    \/ \E l \in Legs : OnlyRec(ChildWrite(l))
    \/ OnlyRec(RecTick)

RecSpec == Init /\ [][RecNext]_vars

OnlyArch(A) == A /\ UNCHANGED <<asrVars, recVars, storeVars, repoVars, pageVars, retVars, moreVars>>

ArchNext ==
    \/ OnlyArch(run)
    \/ \E code \in ExitCodes : OnlyArch(ProcessExit(code))
    \/ \E spawned \in BOOLEAN : OnlyArch(monitor_process(spawned))
    \/ OnlyArch(run_return)
    \/ OnlyArch(track_completed_files)
    \/ OnlyArch(ArchTick)

ArchSpec == Init /\ [][ArchNext]_vars


(***************************************************************************)
(* The detection pass as a specification: a configured recorder is         *)
(* started, the transcoders write files, get_new_segments runs.            *)
(***************************************************************************)
OnlyStore(A) == A /\ UNCHANGED <<asrVars, recVars, archVars, repoVars, pageVars, retVars, moreVars>>

DetNext ==
    \/ \E audio \in BOOLEAN, video \in BOOLEAN : OnlyRec(load_config(audio, video))
    \/ \E persisted_start \in BOOLEAN : OnlyRec(start_recording("ok", persisted_start))
    \/ \E media \in MediaTypes, start \in FileStarts, secs \in FileSeconds :
          OnlyStore(FileWrite(media, start, secs))
    \/ OnlyStore(get_new_segments)

DetSpec == Init /\ [][DetNext]_vars


(***************************************************************************)
(* upsert_segment calls alone, and together with the detection pass.       *)
(***************************************************************************)
\* The calls are made for the key of the segment that starts with the run.
UpsertStarts == {0}

UpsertCalls(audio_paths, video_paths, sizes, statuses) ==
    \E start \in UpsertStarts : \E ended_at \in {start, start + SegTicks},
       audio_path \in audio_paths, video_path \in video_paths,
       size \in sizes, status \in statuses :
          OnlyStore(UpsertSegment(start, ended_at, audio_path, video_path, size, status))

UpsNext ==
    \/ UpsertCalls({NoPath, "", "a.wav", "b.wav"}, {NoPath, "v.mp4"},
                   {NoSize, 0, 1, 2}, {"created", "completed"})

UpsSpec == Init /\ [][UpsNext]_vars

SegNext ==
    \/ OnlyRec(start_recording("ok", TRUE))
    \/ \E media \in MediaTypes, start \in FileStarts, secs \in FileSeconds :
          OnlyStore(FileWrite(media, start, secs))
    \/ OnlyStore(get_new_segments)
    \/ /\ \A start \in UpsertStarts : sup[start].n < MaxSegUpserts
       /\ UpsertCalls({NoPath, "a.wav"}, {NoPath}, {NoSize, 1}, {"completed"})

SegSpec == Init /\ [][SegNext]_vars


(***************************************************************************)
(* Concurrent upsert_segment and upsert_transcript calls for one key.      *)
(***************************************************************************)
OnlyRepo(A) ==
    A /\ UNCHANGED <<asrVars, recVars, archVars, dfiles, passes, passedFiles,
                     rerun, persistedFiles, sup, pageVars, retVars, moreVars>>

SegmentCalls ==
    {[NoCall EXCEPT !.table = "segments", !.started_at = 0, !.audio_path = a,
                    !.video_path = v, !.size = z] :
        a \in {NoPath, "a.wav"}, v \in {NoPath, "v.mp4"}, z \in {1, 2}}

TranscriptCalls ==
    {[NoCall EXCEPT !.table = "transcripts", !.started_at = 0, !.text = t] :
        t \in {"t1", "t2"}}

ConcNext ==
    \/ \E w \in Writers, call \in SegmentCalls \cup TranscriptCalls :
          OnlyRepo(upsert_get(w, call))
    \/ \E w \in Writers : OnlyRepo(upsert_commit(w))

ConcSpec == Init /\ [][ConcNext]_vars


(***************************************************************************)
(* A channel whose segments are persisted one after the other, the first   *)
(* of them transcribed.                                                    *)
(***************************************************************************)
TranscribedStarts == {0, SegTicks}

WalkStarts == {k * SegTicks : k \in 0..(MaxWalkRows - 1)}

ListNext ==
    \/ OnlyRec(start_recording("ok", TRUE))
    \/ OnlyRepo(NextSegmentPersisted)
    \/ \E started_at \in TranscribedStarts, text \in {"t1", "t2"} :
          OnlyRepo(upsert_transcript(started_at, text))

ListSpec == Init /\ [][ListNext]_vars


(***************************************************************************)
(* The listings and the retention job as specifications.                   *)
(***************************************************************************)
OnlyPage(A) ==
    A /\ UNCHANGED <<asrVars, recVars, archVars, storeVars, repoVars, retVars, moreVars>>

PageNext ==
    \/ OnlyRec(start_recording("ok", TRUE))
    \/ /\ Cardinality(segTab) < MaxPageRows
       /\ OnlyRepo(NextSegmentPersisted)
    \/ \E started_at \in TranscribedStarts : OnlyRepo(upsert_transcript(started_at, "t1"))
    \/ OnlyPage(AddRow)
    \/ \E kind \in TableListings, limit \in 1..MaxLimit, offset \in 0..MaxOffset :
          OnlyPage(api_list(kind, limit, offset))
    \/ \E limit \in 1..MaxLimit, offset \in 0..MaxOffset :
          OnlyPage(api_list_transcripts(limit, offset))

PageSpec == Init /\ [][PageNext]_vars

OnlyRet(A) ==
    A /\ UNCHANGED <<asrVars, recVars, archVars, storeVars, repoVars, pageVars, moreVars>>

RetNext ==
    \/ \E day \in Days : OnlyRet(InsertTranscript(day))
    \/ \E day \in Days : OnlyRet(InsertEmbedding(day))
    \/ \E suffix \in {".jpg", ".txt"}, day \in Days : OnlyRet(SaveScreenshot(suffix, day))
    \/ \E rt \in 1..MaxDay, re \in 1..MaxDay, rs \in 1..MaxDay,
          root_is_dir \in BOOLEAN, dry_run \in BOOLEAN :
          OnlyRet(run_cleanup(rt, re, rs, root_is_dir, dry_run))

RetSpec == Init /\ [][RetNext]_vars


(***************************************************************************)
(* The retention command over the four pruneable tables.                   *)
(***************************************************************************)
OldVars == <<asrVars, recVars, archVars, storeVars, repoVars, pageVars, lateVars>>

PruneNext ==
    \/ \E day \in Days : InsertTranscript(day) /\ UNCHANGED <<OldVars, moreVars>>
    \/ \E day \in Days : InsertEmbedding(day) /\ UNCHANGED <<OldVars, moreVars>>
    \/ \E day \in Days : InsertEntity(day) /\ UNCHANGED <<OldVars, retVars, cliVars, backVars>>
    \/ \E day \in Days : InsertAlert(day) /\ UNCHANGED <<OldVars, retVars, cliVars, backVars>>
    \/ \E rt \in 1..MaxDay, dry_run \in BOOLEAN, yes \in BOOLEAN :
          /\ retention_main(rt, rt, MaxDay, FALSE, dry_run, yes)
          /\ UNCHANGED <<OldVars, cliVars, backVars>>

PruneSpec == Init /\ [][PruneNext]_vars


(***************************************************************************)
(* The destructive commands as a specification.                            *)
(***************************************************************************)
CliNext ==
    \/ \E kind \in ProcKinds :
          StartProcess(kind) /\ UNCHANGED <<OldVars, retVars, pruneVars, backVars>>
    \/ \E table \in {"derived", "channels"}, dir \in {"today", "older"} :
          WriteData(table, dir) /\ UNCHANGED <<OldVars, retVars, pruneVars, backVars>>
    \/ /\ cliCalls = 0
       /\ InsertTranscript(0)
       /\ UNCHANGED <<OldVars, moreVars>>
    \/ \E include_channels \in BOOLEAN, yes \in BOOLEAN, today_only \in BOOLEAN,
          rc \in ExitCodes :
          /\ fresh_reset(include_channels, yes, today_only, rc)
          /\ UNCHANGED <<OldVars, retVars, pruneVars, backVars>>
    \/ \E include_channels \in BOOLEAN, yes \in BOOLEAN, rc \in ExitCodes :
          /\ db_truncate(include_channels, yes, rc)
          /\ UNCHANGED <<OldVars, retVars, pruneVars, backVars>>
    \/ \E dry_run \in BOOLEAN, yes \in BOOLEAN :
          /\ db_retention(1, 1, dry_run, yes)
          /\ UNCHANGED <<OldVars, backVars>>

CliSpec == Init /\ [][CliNext]_vars


(***************************************************************************)
(* The scheduler's sleep as a specification.                               *)
(***************************************************************************)
BackNext ==
    \/ \E interval_seconds \in {5, 30}, max_interval_seconds \in {20, 300} :
          /\ run_scheduler(interval_seconds, max_interval_seconds)
          /\ UNCHANGED <<OldVars, retVars, pruneVars, cliVars>>
    \/ \E ok \in BOOLEAN, jitter \in Jitters :
          /\ scheduler_cycle(ok, jitter)
          /\ UNCHANGED <<OldVars, retVars, pruneVars, cliVars>>

BackSpec == Init /\ [][BackNext]_vars


(***************************************************************************)
(* The NLP stage as a specification.                                       *)
(***************************************************************************)
RestVars == <<asrVars, recVars, archVars, storeVars, repoVars, pageVars, retVars, pruneVars, cliVars, backVars>>

NlpRest == <<RestVars, ocrVars, taskVars, lastVars>>

NlpNext ==
    \/ \E segment_id \in NlpSegIds : NlpSegmentPersisted(segment_id) /\ UNCHANGED NlpRest
    \/ \E segment_id \in NlpSegIds, text \in Texts :
          NlpTranscriptWritten(segment_id, text) /\ UNCHANGED NlpRest
    \/ \E segment_id \in NlpSegIds : NlpTranscriptPruned(segment_id) /\ UNCHANGED NlpRest
    \/ \E segment_id \in NlpSegIds : NlpSegmentDropped(segment_id) /\ UNCHANGED NlpRest
    \/ DictionariesWritten /\ UNCHANGED NlpRest
    \/ \E since \in NlpSegIds : nlp_run_scheduler(since) /\ UNCHANGED NlpRest
    \/ \E i \in 1..Len(nlp_queue) : entities_for_transcript(i) /\ UNCHANGED NlpRest
    \/ \E i \in 1..Len(nlp_queue) : alerts_for_transcript(i) /\ UNCHANGED NlpRest

NlpSpec == Init /\ [][NlpNext]_vars


(***************************************************************************)
(* The OCR worker as a specification.                                      *)
(***************************************************************************)
OcrNext ==
    \/ \E idx \in DOMAIN Timestamps, text \in OcrTexts, bbox \in Boxes, bands \in {{}, {"ticker"}} :
          OcrFrameRead(idx, text, bbox, bands) /\ UNCHANGED <<RestVars, nlpVars, taskVars, lastVars>>
    \/ \E ocr_write_raw \in BOOLEAN : ocr_segment(ocr_write_raw) /\ UNCHANGED <<RestVars, nlpVars, taskVars, lastVars>>

OcrSpec == Init /\ [][OcrNext]_vars


(***************************************************************************)
(* transcribe_segment with its outcome counter as a specification.         *)
(***************************************************************************)
TaskRest == <<ranPass, recVars, archVars, storeVars, repoVars, pageVars, retVars, pruneVars, cliVars, backVars, nlpVars, ocrVars, lastVars>>

TaskNext ==
    \/ \E s \in Segs, audio_path \in {NoPath, "a.wav"}, status \in {"created", "completed"} :
          upsert_segment(s, audio_path, status) /\ UNCHANGED <<TaskRest, taskVars>>
    \/ SegmentsTruncated /\ UNCHANGED <<TaskRest, taskVars>>
    \/ \E p \in Scheds, mode \in {"sched", "manual"} : PassBegin(p, mode) /\ UNCHANGED <<TaskRest, taskVars>>
    \/ \E p \in Scheds : SetKey(p) /\ UNCHANGED <<TaskRest, taskVars>>
    \/ \E p \in Scheds : MarkQueued(p) /\ UNCHANGED <<TaskRest, taskVars>>
    \/ \E p \in Scheds : Publish(p) /\ UNCHANGED <<TaskRest, taskVars>>
    \/ \E w \in Workers, m \in queue : TaskStart(w, m) /\ UNCHANGED TaskRest
    \/ \E w \in Workers, ok \in BOOLEAN : TaskModel(w, ok) /\ UNCHANGED TaskRest
    \/ \E w \in Workers, ok \in BOOLEAN : TaskTranscribe(w, ok) /\ UNCHANGED TaskRest
    \/ \E w \in Workers : TaskRetry(w) /\ UNCHANGED TaskRest
    \/ \E w \in Workers : TaskError(w) /\ UNCHANGED TaskRest
    \/ \E w \in Workers : TaskComplete(w) /\ UNCHANGED TaskRest

TaskSpec == Init /\ [][TaskNext]_vars


(***************************************************************************)
(* The model cache as a specification.                                     *)
(***************************************************************************)
EarlyVars == <<RestVars, nlpVars, ocrVars, taskVars>>

CacheNext ==
    \/ \E p \in {"solo", "threads"} : asr_worker(p) /\ UNCHANGED <<EarlyVars, dbVars, tailVars>>
    \/ \E t \in Threads : CacheTaskStart(t) /\ UNCHANGED <<EarlyVars, dbVars, tailVars>>
    \/ \E t \in Threads : get_model_test(t) /\ UNCHANGED <<EarlyVars, dbVars, tailVars>>
    \/ \E t \in Threads, ok \in BOOLEAN : get_model_load(t, ok) /\ UNCHANGED <<EarlyVars, dbVars, tailVars>>

CacheSpec == Init /\ [][CacheNext]_vars


(***************************************************************************)
(* The first uses of the database as a specification.                      *)
(***************************************************************************)
DbNext ==
    \/ \E t \in Threads, with_init \in BOOLEAN : get_db(t, with_init) /\ UNCHANGED <<EarlyVars, cacheVars, tailVars>>
    \/ \E t \in Threads : init_engine_test(t) /\ UNCHANGED <<EarlyVars, cacheVars, tailVars>>
    \/ \E t \in Threads : init_engine_create(t) /\ UNCHANGED <<EarlyVars, cacheVars, tailVars>>
    \/ \E t \in Threads : init_engine_sessionmaker(t) /\ UNCHANGED <<EarlyVars, cacheVars, tailVars>>
    \/ \E t \in Threads : get_session_test(t) /\ UNCHANGED <<EarlyVars, cacheVars, tailVars>>
    \/ \E t \in Threads : get_session_assert(t) /\ UNCHANGED <<EarlyVars, cacheVars, tailVars>>

DbSpec == Init /\ [][DbNext]_vars


(***************************************************************************)
(* One run of the recorder over the segment store as a specification.      *)
(***************************************************************************)
RunRest == <<asrVars, archVars, repoVars, pageVars, retVars, pruneVars, cliVars, backVars, nlpVars, ocrVars, taskVars, cacheVars, dbVars, lagVars, walkVars>>

RunNext ==
    \/ \E media \in MediaTypes, start \in OlderStarts :
          OlderFile(media, start) /\ UNCHANGED <<RunRest, recVars, runVars>>
    \/ \E micro \in BOOLEAN : StartRun(micro) /\ UNCHANGED <<RunRest, storeVars>>
    \/ \E media \in MediaTypes, start \in RunStarts, secs \in FileSeconds :
          TranscoderWrite(media, start, secs) /\ UNCHANGED <<RunRest, recVars, runVars>>
    \/ get_new_segments /\ UNCHANGED <<RunRest, recVars, runVars>>
    \/ StopRun /\ UNCHANGED <<RunRest, runVars>>
    \/ FinalPass /\ UNCHANGED <<RunRest, recVars, runVars>>

RunSpec == Init /\ [][RunNext]_vars


(***************************************************************************)
(* The ASR scheduler under a backlog as a specification.                   *)
(***************************************************************************)
LagRest == <<EarlyVars, cacheVars, dbVars, runVars, walkVars>>

LagNext ==
    \/ \E n \in Arrivals : LagCapture(n) /\ UNCHANGED LagRest
    \/ \E k \in 0..MaxSlack : enqueue_missing(Take(k)) /\ UNCHANGED LagRest
    \/ \E t \in LagStarts : \E n \in {100, inflight[t]} : LagTranscribed(t, n) /\ UNCHANGED LagRest
    \/ LagTick /\ UNCHANGED LagRest

LagSpec == Init /\ [][LagNext]_vars


(***************************************************************************)
(* A walk over GET /transcripts as a specification: segments are           *)
(* persisted and transcribed, then a client pages through the listing.     *)
(***************************************************************************)
WalkNext ==
    \/ walk_limit = 0 /\ OnlyRec(start_recording("ok", TRUE))
    \/ /\ walk_limit = 0
       /\ Cardinality(segTab) < MaxWalkRows
       /\ OnlyRepo(NextSegmentPersisted)
    \/ /\ walk_limit = 0
       /\ \E started_at \in WalkStarts : OnlyRepo(upsert_transcript(started_at, "t1"))
    \/ \E limit \in 1..MaxWalkLimit :
          WalkGet(limit) /\ UNCHANGED <<EarlyVars, cacheVars, dbVars, runVars, lagVars>>

WalkSpec == Init /\ [][WalkNext]_vars

(***************************************************************************)
(* Claims about the ASR pipeline.                                          *)
(***************************************************************************)
PubPairs(s) == {ij \in (DOMAIN pubs[s]) \X (DOMAIN pubs[s]) : ij[1] < ij[2]}

\* C1: for every segment and every interleaving of enqueue_missing passes,
\* two publishes of its task are at least dedupe_ttl_seconds apart: at most
\* one task is published between the setting of the dedupe key and its expiry.
C1_OnePublishPerTtl ==
    \A s \in Segs : \A ij \in PubPairs(s) :
        pubs[s][ij[2]].at - pubs[s][ij[1]].at >= TTL

\* A concurrent pass found the key set, and the task was published again
\* once the key had expired.
C1_Witness ==
    \E s \in Segs : /\ Len(pubs[s]) = 2
                    /\ "fresh" \in skipBy[s]
                    /\ Alive(s)

AllowedAsrStep(a, b) ==
    \/ a = b
    \/ <<a, b>> \in {<<"pending", "queued">>, <<"queued", "processing">>,
                     <<"processing", "completed">>, <<"processing", "failed">>,
                     <<"failed", "queued">>}

\* C2: asr_status only moves pending -> queued -> processing -> completed or
\* failed, and from failed back to queued on a retry; no other transition
\* ever occurs.
C2_StatusMonotone ==
    [][\A s \in Segs : AllowedAsrStep(segRow[s].asr_status, segRow'[s].asr_status)]_vars

RestartedPubsSpaced(s) ==
    \A ij \in PubPairs(s) :
        pubs[s][ij[2]].inc > 0 => pubs[s][ij[2]].at - pubs[s][ij[1]].at >= TTL

\* C3, as stated: a scheduler restarted while the dedupe key is alive
\* publishes no second task, and the worker executes the task exactly once
\* (here: never more than once).
C3_ExecutedOnce ==
    \A s \in Segs :
        /\ RestartedPubsSpaced(s)
        /\ ("restarted" \in skipBy[s] /\ Len(pubs[s]) = 1) => execs[s] <= 1

\* C3, amended: a scheduler restarted while the dedupe key is alive publishes
\* no second task within the key's TTL, and the worker executes each
\* published task once plus once per retry, at most 1 + max_retries times.
C3_DedupeSurvivesRestart ==
    \A s \in Segs :
        /\ RestartedPubsSpaced(s)
        /\ "restarted" \in skipBy[s] => execs[s] <= Len(pubs[s]) * (1 + max_retries)

\* A restarted scheduler met the live key, and the one task published was
\* executed and retried.
C3_Witness ==
    \E s \in Segs : /\ "restarted" \in skipBy[s]
                    /\ Len(pubs[s]) = 1
                    /\ execs[s] = 1 + max_retries

Eligible(s) == segRow[s].audio_path # NoPath /\ segRow[s].status = "completed"

\* C4: a segment with an audio path, status completed and no transcript that
\* starts inside the lookback window is published exactly once by the running
\* scheduler, and once a worker execution for it has returned ok its
\* asr_status is completed and its transcript row carries the configured
\* model name.
C4_PublishedOnceThenCompleted ==
    \A s \in Segs :
        /\ Len(pubs[s]) <= 1
        /\ (Eligible(s) /\ now > SegStart(s) + Lookback) => Len(pubs[s]) = 1
        /\ done[s] => /\ segRow[s].asr_status = "completed"
                      /\ transcript[s] = model_name

C4_Witness ==
    \E s \in Segs : /\ done[s]
                    /\ Len(pubs[s]) = 1
                    /\ now > SegStart(s) + Lookback

(***************************************************************************)
(* Claims about DualHLSRecorder.                                           *)
(***************************************************************************)
\* C5: after stop_recording has returned for a recorder that was running,
\* the recording row written by start_recording has status completed and a
\* non-null ended_at, and the partials cleanup and the extras cleanup have
\* run: no short segment file and at most one full segment file per enabled
\* media type is left.
C5_StopCompletesRecording ==
    (stopDone /\ runs > 0 /\ recordings[runs].status # "none") =>
        /\ recordings[runs].status = "completed"
        /\ recordings[runs].ended_at # NoTime
        /\ \A l \in {"audio", "video"} :
              LegEnabled(l) => ~files[l].partial /\ files[l].full <= 1

\* C6: SIGKILL is sent to a leg only after SIGTERM and a whole stop timeout,
\* and only to a child that has not exited; when stop_recording has returned
\* for a running recorder, no child leg is alive.
C6_TermThenKillThenExit ==
    /\ [](\A l \in Legs : killAt[l] # NoTime =>
              /\ termAt[l] # NoTime
              /\ killAt[l] >= termAt[l] + StopTimeout)
    /\ [][\A l \in Legs : killAt'[l] # killAt[l] /\ killAt'[l] # NoTime =>
              child[l] = "alive"]_vars
    /\ [](stopDone => \A l \in Legs : child[l] # "alive")

\* stop_recording has returned; one leg was killed after the timeout and
\* another exited on SIGTERM.
C6_Witness ==
    /\ stopDone
    /\ \E l \in Legs : killAt[l] # NoTime /\ child[l] = "exited"
    /\ \E l \in Legs : termAt[l] # NoTime /\ killAt[l] = NoTime /\ child[l] = "exited"

\* One second, rounded up to whole ticks.
KillTolerance == (1 + RecTickSeconds - 1) \div RecTickSeconds

\* C7: every child that had to be killed is killed within the stop timeout
\* (plus the tolerance) of the stop being issued, however many legs run.
C7_KilledWithinTimeout ==
    \A l \in Legs : killAt[l] # NoTime =>
        killAt[l] - stopAt <= StopTimeout + KillTolerance

\* C8: a stop_recording call on a recorder that is not running returns at
\* once and sends no signal, deletes no file and writes nothing to the
\* database; a stop that has run to its end leaves the recorder not running,
\* so the next stop is such a call.
C8_StopIdempotent ==
    [][/\ (stopCalls' # stopCalls /\ ~running) =>
              /\ rpc' = "idle"
              /\ UNCHANGED <<running, recording_id, run_started_at, proc, child,
                             files, recordings, termAt, killAt, stopAt>>
       /\ (rpc = "finish" /\ rpc' = "idle") => ~running']_vars

\* A recorder was started and stopped, segment files are on disk, and
\* stop_recording was called once more.
C8_Witness ==
    /\ stopDone
    /\ lastStop = "skipped"
    /\ rpc = "idle"
    /\ \E l \in Legs : files[l].full > 0

(***************************************************************************)
(* Claims about ArchiveRecorder.                                           *)
(***************************************************************************)
RestartsInHourBefore(i) ==
    Cardinality({j \in 1..(i - 1) : restartTimes[i] - restartTimes[j] < HourTicks})

C10_KeepsSupervising ==
    (curCode \notin {NoCode, 0} /\ restart_count < max_restarts_per_hour) =>
        /\ runPc # "returned"
        /\ monitor # "cancelled"

C12_DetectionIdempotent ==
    /\ [](\A r1 \in segTab, r2 \in segTab :
             /\ r1.id = <<channel_id, r1.started_at>>
             /\ r1.started_at = r2.started_at => r1 = r2)
    /\ [][(passes' = passes + 1 /\ passes > 0 /\ passedFiles = dfiles)
             => segTab' = segTab]_vars

C12_Witness ==
    /\ rerun
    /\ \E r \in segTab : r.audio_path # NoPath /\ r.video_path # NoPath

\* C13: every file persisted as a segment passed the full-segment gate: an
\* audio file has at least 0.85 of the expected bytes, and no persisted file,
\* audio or video, holds less than 92 % of segment_seconds.
C13_OnlyFullFilesPersisted ==
    \A p \in persistedFiles :
        LET f == [media |-> p[1], start |-> 0, secs |-> p[2]]
        IN /\ f.media = "audio" =>
                FileSize(f) * 100 >= sample_rate * channels * 2 * segment_seconds * 85
           /\ f.secs * 100 >= 92 * segment_seconds

\* C14: every row of the segments table ends after it starts, and lasts the
\* configured segment duration within 5 %.
C14_RowDurationValid ==
    \A r \in segTab :
        /\ r.started_at < r.ended_at
        /\ (r.ended_at - r.started_at) * 100 >= 95 * SegTicks
        /\ (r.ended_at - r.started_at) * 100 <= 105 * SegTicks

\* C15: every row of the segments table has a non-empty audio_path or a
\* non-empty video_path.
C15_RowHasPath ==
    \A r \in segTab : Truthy(r.audio_path) \/ Truthy(r.video_path)

UpsertedRows == {r \in segTab : sup[r.started_at].n > 0}

\* C16, as stated: after upsert_segment calls for one key each path is the
\* first non-empty value supplied, file_size_bytes is the largest size
\* supplied, and ended_at and status are those of the last call.
C16_MergeSemantics ==
    \A r \in UpsertedRows :
        LET h == sup[r.started_at]
        IN /\ IF h.audio # NoPath THEN r.audio_path = h.audio ELSE ~Truthy(r.audio_path)
           /\ IF h.video # NoPath THEN r.video_path = h.video ELSE ~Truthy(r.video_path)
           /\ r.file_size_bytes = h.max_size
           /\ r.ended_at = h.ended_at
           /\ r.status = h.status

\* C16, amended: as above, but file_size_bytes is the largest size supplied
\* when a positive size was supplied, and the size of the first call
\* otherwise.
C16_MergeSemanticsPositive ==
    /\ \A start \in UpsertStarts :
          sup[start].n > 0 => \E r \in UpsertedRows : r.started_at = start
    /\ \A r \in UpsertedRows :
        LET h == sup[r.started_at]
        IN /\ IF h.audio # NoPath THEN r.audio_path = h.audio ELSE ~Truthy(r.audio_path)
           /\ IF h.video # NoPath THEN r.video_path = h.video ELSE ~Truthy(r.video_path)
           /\ r.file_size_bytes = IF h.max_size > 0 THEN h.max_size ELSE h.first_size
           /\ r.ended_at = h.ended_at
           /\ r.status = h.status

C16_Witness ==
    \E r \in UpsertedRows :
        /\ sup[r.started_at].n = MaxUpserts
        /\ r.audio_path = "a.wav"
        /\ r.video_path = "v.mp4"
        /\ r.file_size_bytes = 2
        /\ sup[r.started_at].first_size = NoSize

\* C17: when two writers upsert one key that has no row yet, neither call
\* ends in an error, and once both are through the table holds one row for
\* the key with what both supplied.
C17_ConflictRetried ==
    /\ \A w \in Writers : upc[w] # "error"
    /\ \A w1 \in Writers, w2 \in Writers :
          (/\ w1 # w2
           /\ upc[w1] = "done" /\ upc[w2] = "done"
           /\ ucall[w1].table = "segments" /\ ucall[w2].table = "segments") =>
             /\ Cardinality(segTab) = 1
             /\ \A r \in segTab :
                   /\ Truthy(ucall[w1].audio_path) => Truthy(r.audio_path)
                   /\ Truthy(ucall[w1].video_path) => Truthy(r.video_path)

Listed(t, since) ==
    LET res == list_recent_transcripts(channel_id, since, default_limit, 0)
    IN \E k \in 1..Len(res) :
          /\ res[k][2] = t
          /\ res[k][1].id = t.segment_id
          /\ res[k][1].started_at = t.segment_started_at

NewerSegments(t, since) ==
    {seg \in segTab : seg.started_at >= since /\ seg.started_at > t.segment_started_at}

\* C18, as stated: a transcript that was upserted for a segment starting at
\* or after since is returned by list_recent_transcripts with the default
\* limit, paired with its segment, whatever other segments the channel has.
C18_ListedAfterUpsert ==
    \A t \in trTab : \A since \in {0, t.segment_started_at} : Listed(t, since)

\* C18, amended: it is returned when fewer than limit segments of the channel
\* from since on start later than its segment.
C18_ListedWithinLimit ==
    \A t \in trTab : \A since \in {0, t.segment_started_at} :
        Cardinality(NewerSegments(t, since)) < default_limit => Listed(t, since)

C18_Witness ==
    /\ Cardinality(segTab) = default_limit
    /\ \E t \in trTab : t.segment_started_at = 0 /\ Listed(t, 0)

(***************************************************************************)
(* Claims about the API listings and the retention job.                    *)
(***************************************************************************)

\* C19: the response of every paginated listing called with limit L and
\* offset o carries next_offset exactly when L items were returned, and
\* next_offset is then o + L.
C19_NextOffsetIffFullPage ==
    resp # NoResp =>
        /\ resp.next_offset # NoOffset <=> resp.count = resp.limit
        /\ resp.next_offset # NoOffset => resp.next_offset = resp.offset + resp.limit

C19_Witness ==
    /\ resp.kind = "transcripts"
    /\ resp.limit = MaxLimit
    /\ resp.offset = 0
    /\ resp.next_offset = MaxLimit

\* C20: a dry run of run_cleanup changes no table and no screenshot file and
\* reports the number of rows before the cutoff; a run that is not dry
\* removes as many rows as it reports, all of them before the cutoff.
C20_RetentionFrame ==
    [][jobs' = jobs + 1 =>
        /\ report'.dry_run =>
              /\ trDays' = trDays /\ embDays' = embDays /\ shots' = shots
              /\ report'.transcripts =
                    Cardinality({d \in trDays : d < report'.transcripts_cutoff})
              /\ report'.embeddings =
                    Cardinality({d \in embDays : d < report'.embeddings_cutoff})
        /\ ~report'.dry_run =>
              /\ trDays' \subseteq trDays /\ embDays' \subseteq embDays
              /\ report'.transcripts = Cardinality(trDays \ trDays')
              /\ report'.embeddings = Cardinality(embDays \ embDays')
              /\ \A d \in trDays \ trDays' : d < report'.transcripts_cutoff
              /\ \A d \in embDays \ embDays' : d < report'.embeddings_cutoff]_vars

C20_Witness ==
    /\ jobs = MaxJobs
    /\ ~report.dry_run
    /\ report.transcripts > 0
    /\ report.transcripts_cutoff \in trDays

\* C21: after a retention command that was not a dry run has completed, none
\* of transcripts, segment_embeddings, entities and alerts holds a row from
\* before its cutoff.
C21_NothingOlderThanCutoff ==
    (retExit = 0 /\ ~report.dry_run) =>
        /\ \A d \in trDays : ~(d < report.transcripts_cutoff)
        /\ \A d \in embDays : ~(d < report.embeddings_cutoff)
        /\ \A d \in entDays : ~(d < report.transcripts_cutoff)
        /\ \A d \in alertDays : ~(d < report.transcripts_cutoff)

(***************************************************************************)
(* Claims about the command line.                                          *)
(***************************************************************************)

C23_ResetOrder ==
    /\ [](cliLast.cmd = "freshreset" /\ cliLast.yes =>
            /\ \E n \in 3..4 :
                  cliLog = SubSeq(<<"kill", "ports", "truncate", "wipe">>, 1, n)
            /\ aliveAtTruncate \cap (Supervisors \cup Consumers) = {})
    /\ [][(/\ cliCalls' = cliCalls + 1
           /\ cliLast'.cmd = "freshreset"
           /\ cliLast'.yes) =>
              /\ cliLast'.rc # 0 => dataDirs' = dataDirs /\ Len(cliLog') = 3
              /\ (~cliLast'.include_channels /\ "channels" \in tables) =>
                    "channels" \in tables']_vars

(***************************************************************************)
(* Claims about the scheduler's sleep.                                     *)
(***************************************************************************)
RECURSIVE Pow2(_)
Pow2(k) == IF k = 0 THEN 1 ELSE 2 * Pow2(k - 1)

SchedBase == BaseInterval(sched_args.interval_seconds)

\* The interval after the cycles so far: the base after a success, the base
\* doubled once for every failure since, up to the maximum.
IntervalAsStated ==
    current_interval =
        IF fails = 0 THEN SchedBase
        ELSE Min(sched_args.max_interval_seconds, SchedBase * Pow2(fails))

\* The sleep is the interval with a jitter of at most 20 %, cut to a whole
\* number of seconds.
JitterWithin ==
    /\ sleep_for * 100 <= current_interval * 120
    /\ (sleep_for + 1) * 100 > current_interval * 80

\* C24, as stated: the interval is min(max_interval_seconds, b * 2^k) after k
\* failing cycles and b after a successful one, the jitter stays within 20 %
\* of the interval, and the sleep never exceeds max_interval_seconds.
C24_SleepWithinMax ==
    sleep_for > 0 =>
        /\ IntervalAsStated
        /\ JitterWithin
        /\ sleep_for <= sched_args.max_interval_seconds

\* C24, amended: as above, but the sleep never exceeds 1.2 times the larger
\* of max_interval_seconds and the base interval.
C24_SleepWithinJitteredMax ==
    sleep_for > 0 =>
        /\ IntervalAsStated
        /\ JitterWithin
        /\ sleep_for * 100 <= Max(sched_args.max_interval_seconds, SchedBase) * 120

C24_Witness ==
    /\ fails = MaxFails
    /\ sched_args.interval_seconds = 30
    /\ current_interval = 300
    /\ sleep_for = 360

(***************************************************************************)
(* Claims about the NLP stage.                                             *)
(***************************************************************************)
\* the scheduler's messages of a step: the messages without a retry that the
\* step appended to the queue
EnqueuedWithTranscript ==
    \A k \in (Len(nlp_queue) + 1)..Len(nlp_queue') :
        nlp_queue'[k].retries = 0 => TranscriptRows(nlp_queue'[k].segment_id) # {}

\* the step is a task execution that found the transcript or the segment
\* missing
ExecutedOnMissing ==
    /\ nlp_execs' = nlp_execs + 1
    /\ \/ TranscriptRows(nlp_last'.segment_id) = {}
       \/ nlp_last'.segment_id \notin nlp_segments

RetryScheduled ==
    /\ Len(nlp_queue') = Len(nlp_queue)
    /\ nlp_queue'[Len(nlp_queue')] = [task |-> nlp_last'.task, segment_id |-> nlp_last'.segment_id,
                                      retries |-> nlp_last'.retries + 1]

\* C25 as stated: an NLP task is enqueued only when the transcript row of
\* its segment exists, and an execution that finds the transcript or the
\* segment missing writes no entity and no alert row and schedules a retry.
C25_MissingAlwaysRetried ==
    [][/\ EnqueuedWithTranscript
       /\ ExecutedOnMissing => /\ entities' = entities
                               /\ alerts' = alerts
                               /\ RetryScheduled]_vars

\* C25, amended: an NLP task is enqueued only when the transcript row of its
\* segment exists, and an execution that finds the transcript or the segment
\* missing writes no entity and no alert row; it schedules a retry while the
\* message has been retried fewer than max_retries (2) times, and after that
\* the error is raised and the message is not sent again.
C25_MissingRetriedWithinBudget ==
    [][/\ EnqueuedWithTranscript
       /\ ExecutedOnMissing => /\ entities' = entities
                               /\ alerts' = alerts
                               /\ nlp_last'.retries < nlp_max_retries => RetryScheduled
                               /\ nlp_last'.retries >= nlp_max_retries =>
                                     /\ Len(nlp_queue') = Len(nlp_queue) - 1
                                     /\ nlp_last'.outcome = "failure"]_vars

\* the last retry of a message has found its segment missing, with entity
\* rows of an earlier execution in the table
C25_Witness ==
    /\ nlp_last.task # "none"
    /\ nlp_last.missing
    /\ nlp_last.retries = nlp_max_retries
    /\ nlp_last.segment_id \notin nlp_segments
    /\ entities # << >>

NoRowTwice(rows) == \A i, j \in 1..Len(rows) : i # j => rows[i] # rows[j]

\* C27: artifact writes are idempotent by natural key: executing the task of
\* a stage for the same segment more than once leaves the rows of a single
\* execution, that is one transcript per segment and no entity row and no
\* alert row twice.
C27_NoDuplicateArtifacts ==
    /\ \A a, b \in nlp_transcripts : a.segment_id = b.segment_id => a = b
    /\ NoRowTwice(entities)
    /\ NoRowTwice(alerts)

(***************************************************************************)
(* Claims about the OCR worker.                                            *)
(***************************************************************************)
SameTextFrames ==
    /\ ocr_frames # << >>
    /\ \A i, j \in 1..Len(ocr_frames) :
          /\ ocr_frames[i].text = ocr_frames[j].text
          /\ IouAtLeast(ocr_frames[i].bbox, ocr_frames[j].bbox, ocr_iou_threshold)
    /\ \A i \in 1..(Len(ocr_frames) - 1) :
          ocr_frames[i + 1].ts - ocr_frames[i].ts <= ocr_merge_window_ms

PersistedSpans == SelectSeq(visual_events, LAMBDA ve : ve.aggregated)

\* C26: for a segment whose sampled frames all carry the same text, with
\* pairwise IoU of the boxes at or above the threshold and gaps within the
\* merge window, ocr_segment persists exactly one span event, from the
\* timestamp of the first frame to that of the last, not one per frame or
\* per region.
C26_OneSpanForSameText ==
    (ocr_runs = 1 /\ SameTextFrames) =>
        /\ Len(PersistedSpans) = 1
        /\ PersistedSpans[1].timestamp_offset = ocr_frames[1].ts
        /\ PersistedSpans[1].end_offset = ocr_frames[Len(ocr_frames)].ts

(***************************************************************************)
(* Claims about the failures of transcribe_segment.                        *)
(***************************************************************************)
Redelivered(m) == [m EXCEPT !.retries = @ + 1] \in queue'

SentAgain(m) == \E m2 \in queue' : m2.seg = m.seg /\ m2.n = m.n

\* an execution ends in the handler of a model load error: the segment has
\* its audio path and the task asked for a retry
ModelLoadFailed(w) == wpc[w] = "retry" /\ wpc'[w] = "idle" /\ segRow[wmsg[w].seg].audio_path # NoPath

AnalyserFailed(w) == wpc[w] = "error" /\ wpc'[w] = "idle"

\* C28: when transcribe_segment fails with a model load error or with an
\* error of the analyser, the message is delivered again by the retry policy
\* while retries remain, and the segment's asr_status is failed once they are
\* exhausted.
C28_FailureRedelivered ==
    [][\A w \in Workers :
          (ModelLoadFailed(w) \/ AnalyserFailed(w)) =>
              IF wmsg[w].retries < max_retries
              THEN Redelivered(wmsg[w])
              ELSE segRow'[wmsg[w].seg].asr_status = "failed"]_vars

MissingAudio(s) == segRow[s].audio_path = NoPath

\* C29: an execution of transcribe_segment whose segment row is missing or
\* has no audio path never invokes the analyser and never sets asr_status to
\* processing; it schedules a retry, a message is retried max_retries (3)
\* times at most, and after that the error is raised and the message is not
\* executed again.
C29_MissingAudioRetryBounded ==
    /\ [](\A m \in queue : m.retries <= max_retries)
    /\ [][\A w \in Workers :
             /\ (wpc[w] = "idle" /\ wpc'[w] # "idle" /\ MissingAudio(wmsg'[w].seg)) =>
                   /\ wpc'[w] = "retry"
                   /\ segRow' = segRow
                   /\ transcript' = transcript
             /\ (wpc[w] = "retry" /\ wpc'[w] # "retry" /\ MissingAudio(wmsg[w].seg)) =>
                   /\ wpc'[w] = "idle"
                   /\ transcript' = transcript
                   /\ segRow'[wmsg[w].seg].asr_status # "processing"
                   /\ IF wmsg[w].retries < max_retries
                      THEN Redelivered(wmsg[w])
                      ELSE ~SentAgain(wmsg[w])]_vars

\* the third retry of a message finds its segment without an audio path
C29_Witness ==
    \E w \in Workers :
        /\ wpc[w] = "retry"
        /\ wmsg[w].retries = max_retries
        /\ MissingAudio(wmsg[w].seg)

\* C30: every execution of transcribe_segment counts exactly one outcome in
\* ASR_TASK_OUTCOMES: an execution that schedules a retry is not counted as
\* an error too, and a successful one is counted as success only.
C30_OneOutcomePerExecution ==
    [][\A w \in Workers : (wpc[w] # "idle" /\ wpc'[w] = "idle") => Len(outcomes'[w]) = 1]_vars

(***************************************************************************)
(* Claims about the model cache.                                           *)
(***************************************************************************)
\* C31: within one worker process the analyser model is constructed at most
\* once and then reused, for any number and any interleaving of concurrent
\* task invocations of the process.
C31_ConstructedAtMostOnce ==
    /\ loads <= 1
    /\ \A t, u \in Threads : (got[t] # 0 /\ got[u] # 0) => got[t] = got[u]

(***************************************************************************)
(* Claims about the database engine.                                       *)
(***************************************************************************)
\* C40: under any interleaving of threads that use the database for the
\* first time at once, get_session never fails its assertion that the
\* session factory is set: no thread finds the engine set while the session
\* factory is still unset.
C40_AssertNeverFails == \A t \in Threads : dpc[t] # "AssertionError"

(***************************************************************************)
(* Claims about the stage status of the OCR worker.                        *)
(***************************************************************************)
\* C32: ocr_segment sets the vision status of its segment to processing
\* before it analyses, to completed after its span events are committed and
\* to failed when the execution raises: once an execution has committed its
\* events the status is completed.
C32_OcrSetsStageStatus == ocr_runs >= 1 => vision_status = "completed"


(***************************************************************************)
(* Claims about one run of the recorder over the segment store.            *)
(***************************************************************************)
\* The files stop_recording has deleted in this step.
Unlinked == dfiles \ dfiles'

\* The valid segment files of the current run, per media type.
RunCandidates(media) == {f \in Candidates(dfiles, media) : f.start >= run_started_at}

\* C33: the extras cleanup run on stop deletes only files whose start lies in
\* the current run window: no file whose parsed start precedes the start of
\* the run is deleted, and per media type the earliest valid segment file of
\* the run is kept.
C33_ExtrasOnlyInRunWindow ==
    [][(running /\ ~running') =>
          /\ \A f \in Unlinked : ~(FullDuration(f) /\ f.start < run_started_at)
          /\ \A media \in MediaTypes :
                RunCandidates(media) # {} => Earliest(RunCandidates(media)) \in dfiles']_vars

\* The rows a step has created or modified.
RowsWritten == segTab' \ segTab

\* The files of the current run's transcoders that pass the size test.
RunFiles == {f \in dfiles : MediaEnabled(f.media) /\ PassesGate(f) /\ f.start \in RunStarts}

\* The row of the file's start carries the file's path.
Persisted(tab, f) ==
    \E r \in tab : /\ r.started_at = f.start
                     /\ FilePath(f) \in {r.audio_path, r.video_path}

\* C34: a detection pass writes segment rows only while a recording is
\* active and only for files that start at or after the start of the run;
\* every file of the current run's transcoders that passes the size test,
\* the first one included, is persisted by the next pass; and the final pass
\* after stop_recording writes nothing.
C34_PassPersistsRunFiles ==
    [][passes' # passes =>
          /\ RowsWritten # {} => running /\ recording_id # NoId
          /\ \A r \in RowsWritten : r.started_at >= run_started_at
          /\ running => \A f \in RunFiles : Persisted(segTab', f)
          /\ ~running => segTab' = segTab]_vars

\* The media file a row's path points to is on disk.
PathOnDisk(path) == path = NoPath \/ \E f \in dfiles : FilePath(f) = path

\* C35: after stop_recording every segment row still references media files
\* that exist on disk: stopping never deletes a file that the audio_path or
\* the video_path of a persisted row points to.
C35_RowsKeepTheirFiles ==
    stopDone => \A r \in segTab : PathOnDisk(r.audio_path) /\ PathOnDisk(r.video_path)


(***************************************************************************)
(* Claims about the children start_recording leaves behind.                *)
(***************************************************************************)
\* C36: whenever a transcoder child spawned by start_recording is alive,
\* self.running is true, so that a later stop_recording does not skip it,
\* also when the spawn of a later leg has failed.
C36_AliveChildIsStoppable ==
    \A l \in Legs : child[l] = "alive" => running


(***************************************************************************)
(* Claims about the dedupe key and the publish of enqueue_missing.         *)
(***************************************************************************)
\* A scheduler process is between r.set and transcribe_segment.delay for s.
Enqueueing(s) ==
    \E p \in Scheds : spc[p] \in {"mark", "publish"} /\ Head(todo[p]) = s

\* A task for s was published since its live key was set.
PublishedForKey(s) ==
    \E i \in DOMAIN pubs[s] : pubs[s][i].at + TTL >= redisKey[s]

\* C37: whenever the dedupe key of a segment is set and no scheduler is just
\* between setting it and publishing, a task for the segment has been
\* published: a failure between the two leaves no segment that is blocked
\* for the TTL without a task.
C37_KeyImpliesPublished ==
    \A s \in Segs : (Alive(s) /\ ~Enqueueing(s)) => PublishedForKey(s)


(***************************************************************************)
(* Claims about the ASR scheduler under a backlog.                         *)
(***************************************************************************)
\* C38: with a scheduler that makes a pass in every tick and a broker that
\* accepts every publish, no eligible segment leaves the lookback window
\* unpublished, also when more than 200 segments are missing a transcript
\* at once and the workers lag behind.
C38_PublishedInsideWindow ==
    \A t \in LagStarts : t < lnow - LagLookback => waiting[t] = 0


(***************************************************************************)
(* Claims about a walk over GET /transcripts.                              *)
(***************************************************************************)
\* The starts of the segments that have a transcript.
PairStarts ==
    {seg.started_at : seg \in {x \in segTab : TranscriptOf(trTab, x.id, x.started_at) # {}}}

WalkOver == walk_limit > 0 /\ walk_next = NoOffset

\* C39: a walk from offset 0 that follows next_offset until it is absent has
\* returned every (segment, transcript) pair exactly once, for any mix of
\* segments with and without transcripts and any limit.
C39_WalkReturnsEveryPair ==
    WalkOver =>
        /\ {walk_items[k] : k \in DOMAIN walk_items} = PairStarts
        /\ Len(walk_items) = Cardinality(PairStarts)
====
